---------------------------- MODULE Spec2Model ----------------------------
(***************************************************************************)
(* A model of dtcxzyw/r6: the cost estimator (costestimate.cpp), the       *)
(* opcode encoding solver (encode.cpp) and the constant materialization    *)
(* utility (constmat.cpp).                                                 *)
(*                                                                         *)
(* Integers of the program are up to 64 (APInt: up to 128) bits wide, so   *)
(* an integer is modelled by the set of the positions of its one bits      *)
(* (position 0 is the least significant bit) together with its width.      *)
(***************************************************************************)
EXTENDS Integers, Sequences, FiniteSets, TLC

VARIABLES
    \* ---- CostEstimator (costestimate.cpp) ----
    F,               \* the function under analysis
    pc,              \* position of the running program
    Cost,            \* CostEstimator::Cost
    RequestedValues, \* CostEstimator::RequestedValues
    prepassIdx,      \* index of the block the phi pre-pass looks at next
    poIdx,           \* index into post_order(&F) of the block being traversed
    instIdx,         \* index (from the end) of the instruction to decide next
    decided,         \* ids of instructions whose visit decision has been taken
    visited,         \* ids of instructions that were visited
    residualLeft,    \* requested values the residual pass has still to look at
    \* ---- encode.cpp ----
    OpsTable,        \* Ops: sequence of [Mnemonic, Length]
    pairI, pairJ,    \* the loop indices i, j of the prefix constraints
    Constraints,     \* the assertions added to Solver: <<i, j, Size>>
    Res,             \* Solver.check()
    Model,           \* Solver.get_model(): value of each Vars[i]
    Out,             \* lines written to std::cout (of encode and of constmat)
    ExitStatus,      \* status the process exits with
    \* ---- constmat.cpp ----
    FileLines,       \* constdist.txt: the pairs <<k, v>> that File >> k >> v reads
    lineIdx,         \* index of the pair that the loop reads next
    sum,             \* main::sum (uint64_t), as the set of its one bits
    \* ---- costestimate.cpp main ----
    InputDir,        \* the directory given on the command line
    Entries,         \* the regular files below InputDir, in the order of the
                     \* directory iterator: [Path, M], M the parsed module
    InputFiles,      \* the considered files, as main collects them
    fileIdx,         \* index of the file the batch loop processes next
    CostTable,       \* std::map<std::string, uint64_t>: <<K, V>>, sorted by K
    Writer,          \* for every key of CostTable, the path that stored it last
    Report           \* the lines of cost.txt, "Total" last

estVars == <<F, Cost, RequestedValues, prepassIdx, poIdx, instIdx, decided,
             visited, residualLeft>>
encVars == <<OpsTable, pairI, pairJ, Constraints, Res, Model, Out, ExitStatus>>
matVars == <<FileLines, lineIdx, sum>>
batchVars == <<InputDir, Entries, InputFiles, fileIdx, CostTable, Writer, Report>>
vars == <<pc, estVars, encVars, matVars, batchVars>>

-----------------------------------------------------------------------------
(* Program constants.                                                      *)

LoadStoreCost == 4
JumpCost == 1
MulCost == 3
FCheapOpCost == 3

ShAmtBits == 6
AddSubImmBits == 16
SelectImmBits == 16
LargeImmBits == 20
MinMaxImmBits == 16
ShiftImmBits == 14
MulDivBits == 14
CmpImmBits == 12
BranchCmpImmBits == 5

InstructionBits == 32

-----------------------------------------------------------------------------
(* Sequences and sets.                                                     *)

Range(s) == {s[i] : i \in DOMAIN s}

Max(S) == CHOOSE x \in S : \A y \in S : y <= x
Min(S) == CHOOSE x \in S : \A y \in S : x <= y

RECURSIVE SumSeq(_)
SumSeq(s) == IF s = <<>> THEN 0 ELSE Head(s) + SumSeq(Tail(s))

Reverse(s) == [i \in 1..Len(s) |-> s[Len(s) + 1 - i]]

RemoveAt(s, i) == SubSeq(s, 1, i - 1) \o SubSeq(s, i + 1, Len(s))

\* the bits of a small natural number
RECURSIVE NatBits(_)
NatBits(n) ==
    IF n = 0 THEN {}
    ELSE (IF n % 2 = 1 THEN {0} ELSE {}) \cup {b + 1 : b \in NatBits(n \div 2)}

\* a + b + carry into position i, from position i upwards
RECURSIVE AddFrom(_, _, _, _, _)
AddFrom(a, b, i, carry, top) ==
    IF i > top THEN {}
    ELSE LET n == (IF i \in a THEN 1 ELSE 0) + (IF i \in b THEN 1 ELSE 0)
                  + (IF carry THEN 1 ELSE 0)
         IN  (IF n % 2 = 1 THEN {i} ELSE {})
             \cup AddFrom(a, b, i + 1, n >= 2, top)

\* a + b of unbounded naturals
AddBits(a, b) == AddFrom(a, b, 0, FALSE, Max(a \cup b \cup {0}) + 1)

\* a * b of unbounded naturals: b shifted to every one bit of a
RECURSIVE MulBits(_, _)
MulBits(a, b) ==
    IF a = {} THEN {}
    ELSE LET i == Min(a)
         IN  AddBits({x + i : x \in b}, MulBits(a \ {i}, b))

\* conversion to an unsigned type of w bits
Wrap(w, x) == x \cap (0 .. w - 1)

\* the natural number of a set of bits
RECURSIVE BitsToNat(_)
BitsToNat(x) == IF x = {} THEN 0 ELSE 2 ^ Max(x) + BitsToNat(x \ {Max(x)})

-----------------------------------------------------------------------------
(* Values (llvm::Value).  Every value is a record of the same shape:       *)
(*   k    : "arg" | "inst" | "block" | "cint" | "cfp" | "null"             *)
(*   id   : argument number, instruction id or block number; for a "cfp"   *)
(*          the binary exponent of the lowest set bit of the significand   *)
(*   w    : bit width (of a "cint" or an "arg"; format size of a "cfp")    *)
(*   bits : positions of the one bits of a "cint"; of the significand of   *)
(*          a "cfp" (the value is the bits' integer times 2^id)            *)
(* Constants are uniqued by LLVM, so equal records are the same Value*.    *)

Arg(n, w) == [k |-> "arg", id |-> n, w |-> w, bits |-> {}]
InstV(n) == [k |-> "inst", id |-> n, w |-> 0, bits |-> {}]
BlockV(b) == [k |-> "block", id |-> b, w |-> 0, bits |-> {}]
CInt(w, bits) == [k |-> "cint", id |-> 0, w |-> w, bits |-> bits]
CFP(w, e, bits) == [k |-> "cfp", id |-> e, w |-> w, bits |-> bits]
\* ConstantPointerNull
Null == [k |-> "null", id |-> 0, w |-> 0, bits |-> {}]

\* APInt::getSExtValue, as the set of one bits of the int64_t
getSExtValue(V) ==
    IF (V.w - 1) \in V.bits THEN V.bits \cup (V.w .. 63) ELSE V.bits

\* APInt::getZExtValue, as the set of one bits of the uint64_t
getZExtValue(V) == V.bits

\* llvm::isInt<K>(int64_t): the value is in [-2^(K-1), 2^(K-1))
isInt(K, x) == LET top == (K - 1) .. 63
               IN  top \subseteq x \/ top \cap x = {}

\* llvm::isUInt<K>(uint64_t)
isUInt(K, x) == x \cap (K .. 63) = {}

\* llvm::isShiftedMask_64(Value, Idx, Len) && Len <= 8
isShiftedMaskLen8(x) ==
    /\ x # {}
    /\ x = Min(x) .. Max(x)
    /\ Cardinality(x) <= 8

\* APInt::isSplat(8)
isSplat8(V) == \A i \in 0 .. (V.w - 9) : (i \in V.bits) <=> ((i + 8) \in V.bits)

countl_one(V) ==
    Max({n \in 0 .. V.w : ((V.w - n) .. (V.w - 1)) \subseteq V.bits})
countl_zero(V) ==
    Max({n \in 0 .. V.w : ((V.w - n) .. (V.w - 1)) \cap V.bits = {}})
countr_one(V) == Max({n \in 0 .. V.w : (0 .. (n - 1)) \subseteq V.bits})
countr_zero(V) == Max({n \in 0 .. V.w : (0 .. (n - 1)) \cap V.bits = {}})

-----------------------------------------------------------------------------
(* Matchers of the immediate classifier.                                   *)

\* PatternMatch::m_Zero on a scalar: the null value of its type
m_Zero(V) == (V.k \in {"cint", "cfp"} /\ V.bits = {}) \/ V.k = "null"

\* m_Int<K>(): zero, or a ConstantInt narrower than 64 bits within signed K bits
m_Int(K, V) ==
    \/ m_Zero(V)
    \/ /\ V.k = "cint"
       /\ ~(V.w >= 64)
       /\ isInt(K, getSExtValue(V))

m_UInt(K, V) ==
    \/ m_Zero(V)
    \/ /\ V.k = "cint"
       /\ ~(V.w >= 64)
       /\ isUInt(K, getZExtValue(V))

m_BitImm(V) ==
    /\ V.k = "cint"
    /\ ~(V.w >= 64)
    /\ \/ isShiftedMaskLen8(getZExtValue(V))
       \/ V.w % 8 = 0 /\ isSplat8(V)
       \/ countl_one(V) + countr_zero(V) = V.w
       \/ countl_zero(V) + countr_one(V) = V.w

\* APFloat::convert(IEEEhalf, rmNearestTiesToEven, &loseInfo) == opOK &&
\* !loseInfo, for the finite value bits * 2^id: the significand fits the 11
\* bits of half, the lowest bit is no smaller than the smallest subnormal
\* (2^-24) and the highest no larger than 2^15.
fitsIEEEhalf(V) ==
    \/ V.bits = {}
    \/ /\ Max(V.bits) - Min(V.bits) + 1 <= 11
       /\ V.id + Min(V.bits) >= -24
       /\ V.id + Max(V.bits) <= 15

-----------------------------------------------------------------------------
(* Functions (llvm::Function).                                             *)
(*   F.insts  : instruction id -> [op, w, ops, succs]                      *)
(*              op    : the opcode                                         *)
(*              w     : bit width of the result type                       *)
(*              ops   : the value operands (of a phi: the incoming values, *)
(*                      in the order of Preds of its block)                *)
(*              succs : the successor blocks of a terminator               *)
(*   F.blocks : block number -> sequence of instruction ids; block 1 is    *)
(*              the entry block                                            *)

Inst(op, w, ops, succs) == [op |-> op, w |-> w, ops |-> ops, succs |-> succs]

Terminators == {"ret", "br", "switch", "unreachable"}

BlockIds(Fn) == DOMAIN Fn.blocks
InstIds(Fn) == UNION {Range(Fn.blocks[b]) : b \in BlockIds(Fn)}

\* BasicBlock::getTerminator and its successors
Succs(Fn, b) == Fn.insts[Fn.blocks[b][Len(Fn.blocks[b])]].succs

BlockOf(Fn, i) == CHOOSE b \in BlockIds(Fn) : i \in Range(Fn.blocks[b])
PosOf(Fn, i) ==
    LET blk == Fn.blocks[BlockOf(Fn, i)]
    IN  CHOOSE p \in DOMAIN blk : blk[p] = i

\* predecessors of b in ascending block order, one entry per edge source
Preds(Fn, b) ==
    LET P == {a \in BlockIds(Fn) : b \in Range(Succs(Fn, a))}
        RECURSIVE Asc(_)
        Asc(S) == IF S = {} THEN <<>> ELSE <<Min(S)>> \o Asc(S \ {Min(S)})
    IN  Asc(P)

\* Instruction::operands(): value operands, then the block operands
Operands(I) == Range(I.ops) \cup {BlockV(b) : b \in Range(I.succs)}

\* the instructions of Fn that have V among their operands
Users(Fn, V) == {j \in InstIds(Fn) : V \in Range(Fn.insts[j].ops)}

\* the control-flow graph: block number -> successors
CFGOf(Fn) == [b \in BlockIds(Fn) |-> Succs(Fn, b)]

\* depth-first search from a block, successors in order (po_iterator):
\* st = [seen |-> blocks entered, order |-> blocks finished, in order]
RECURSIVE DFS(_, _, _)
DFS(G, b, st) ==
    LET RECURSIVE Children(_, _)
        Children(k, s) ==
            IF k > Len(G[b]) THEN s
            ELSE LET c == G[b][k]
                 IN  Children(k + 1, IF c \in s.seen THEN s ELSE DFS(G, c, s))
        after == Children(1, [st EXCEPT !.seen = @ \cup {b}])
    IN  [after EXCEPT !.order = Append(@, b)]

\* blocks reachable from the entry without passing through block a
RECURSIVE ReachAvoiding(_, _, _)
ReachAvoiding(G, a, S) ==
    LET N == S \cup {c \in DOMAIN G : c # a /\ \E p \in S : c \in Range(G[p])}
    IN  IF N = S THEN S ELSE ReachAvoiding(G, a, N)

\* control-flow graphs: block number -> successors of its terminator
CFGShapes ==
    { <<<<>>>>,                               \* a single block
      <<<<2>>, <<>>>>,                        \* two blocks in a row
      <<<<2>>, <<2>>>>,                       \* a loop with no exit
      <<<<2>>, <<2, 3>>, <<>>>>,              \* a one-block loop
      <<<<2, 3>>, <<3>>, <<>>>>,              \* a triangle
      <<<<3>>, <<3>>, <<>>>>,                 \* block 2 is unreachable
      <<<<2>>, <<3, 4>>, <<2>>, <<>>>> }      \* a loop: header 2, latch 3

\* the analyses of a graph: its postorder and, as dom[a][b], whether block a
\* dominates block b (every block dominates an unreachable one)
CFGAnalyses(G) ==
    LET po == DFS(G, 1, [seen |-> {}, order |-> <<>>]).order
        RECURSIVE Row(_, _)
        Row(a, b) ==
            IF b = 0 THEN <<>>
            ELSE Append(Row(a, b - 1),
                        \/ a = b
                        \/ b \notin Range(po)
                        \/ a = 1
                        \/ b \notin ReachAvoiding(G, a, {1}))
        RECURSIVE Rows(_)
        Rows(a) == IF a = 0 THEN <<>> ELSE Append(Rows(a - 1), Row(a, Len(G)))
    IN  [po |-> po, dom |-> Rows(Len(G))]

MaxCases == 2     \* most cases of a switch

\* the graph of a switch with n cases: block 2 is the default destination
SwitchShape(n) ==
    <<[k \in 1 .. (n + 1) |-> k + 1]>> \o [k \in 1 .. (n + 1) |-> <<>>]

\* the graphs of the functions that are written out one by one
FamilyShapes == {SwitchShape(n) : n \in 0 .. MaxCases}

\* the analyses of each graph, computed once
RECURSIVE Tabulate(_)
Tabulate(S) ==
    IF S = {} THEN <<>>
    ELSE LET G == CHOOSE x \in S : TRUE
         IN  (G :> CFGAnalyses(G)) @@ Tabulate(S \ {G})
CFGInfo == Tabulate(CFGShapes \cup FamilyShapes)

\* the blocks in reverse postorder
post_order_reversed(Fn) == Reverse(CFGInfo[CFGOf(Fn)].po)

\* llvm::post_order(&F)
post_order(Fn) == CFGInfo[CFGOf(Fn)].po

\* DominatorTree::isReachableFromEntry
isReachableFromEntry(Fn, b) == b \in Range(post_order(Fn))

\* DominatorTree::dominates on blocks (every block dominates an unreachable one)
Dominates(Fn, a, b) == CFGInfo[CFGOf(Fn)].dom[a][b]

\* wouldInstructionBeTriviallyDead that finds no instruction dead
wouldInstructionBeTriviallyDead_never(I) == FALSE

\* llvm::wouldInstructionBeTriviallyDead: not a terminator and no side effect
wouldInstructionBeTriviallyDead(I) == I.op \notin (Terminators \cup {"store"})

\* m_FPImm: a ConstantFP that converts to Float8E4M3FN without loss: four
\* bits of significand, from the smallest subnormal 2^-9 up to 448 = 7 * 2^6
m_FPImm(V) ==
    /\ V.k = "cfp"
    /\ \/ V.bits = {}
       \/ /\ Max(V.bits) - Min(V.bits) + 1 <= 4
          /\ V.id + Min(V.bits) >= -9
          /\ V.id + Max(V.bits) <= 8
          /\ ~(V.id + Max(V.bits) = 8 /\ Cardinality(V.bits) = 4)

-----------------------------------------------------------------------------
(* CostEstimator: the visit functions.  Each yields the effect of a visit: *)
(*   c : what it adds to Cost, r : what it inserts into RequestedValues.   *)

Effect(c, r) == [c |-> c, r |-> r]

addOperands(I, K) == Effect(K, Operands(I))

countAdd(LHS, RHS) ==
    Effect(1, {LHS} \cup (IF ~m_Int(AddSubImmBits, RHS) THEN {RHS} ELSE {}))

\* PatternMatch::m_One, m_Power2, m_AllOnes on a ConstantInt
m_One(V) == V.k = "cint" /\ V.bits = {0}
m_Power2(V) == V.k = "cint" /\ Cardinality(V.bits) = 1
m_AllOnes(V) == V.k = "cint" /\ V.bits = 0 .. (V.w - 1)

m_ShAmt(V) == m_UInt(ShAmtBits, V)

\* the assertions at the head of countAdd and of countMul
countAdd_asserts(RHS) == ~m_Zero(RHS)
countMul_asserts(RHS) == ~m_One(RHS) /\ ~m_Zero(RHS)

countMul(LHS, RHS) ==
    IF m_Power2(RHS) THEN Effect(1, {LHS})
    ELSE IF m_Int(MulDivBits, RHS) THEN Effect(1, {LHS})
    ELSE Effect(MulCost, {LHS, RHS})

countMulAdd(LHS, RHS, Add) ==
    Effect(countMul(LHS, RHS).c + countAdd(LHS, Add).c,
           countMul(LHS, RHS).r \cup countAdd(LHS, Add).r)

\* a getelementptr of one index; operands: the pointer and the index; w is
\* the size in bytes of the indexed type.  collectOffset gives a variable
\* index the scale w, and a constant index the offset index * w, both of the
\* 64 bits of a pointer.
Scale(I) == CInt(64, NatBits(I.w))
ConstantOffset(I) ==
    IF I.ops[2].k = "cint"
    THEN CInt(64, Wrap(64, MulBits(NatBits(I.w), I.ops[2].bits)))
    ELSE CInt(64, {})

visitGetElementPtrInst(I) ==
    LET V == I.ops[2]
        variable == IF V.k = "cint" THEN Effect(0, {})
                    ELSE IF I.w # 1 THEN countMulAdd(V, Scale(I), I.ops[1])
                    ELSE Effect(1, {V})
        constant == IF ConstantOffset(I).bits # {}
                    THEN countAdd(I.ops[1], ConstantOffset(I))
                    ELSE Effect(0, {})
    IN  Effect(variable.c + constant.c, variable.r \cup constant.r)

\* every assertion that the visit of I evaluates holds
assertionsHold(I) ==
    CASE I.op = "add" -> countAdd_asserts(I.ops[2])
      [] I.op = "mul" -> countMul_asserts(I.ops[2])
      [] I.op = "gep" ->
           /\ (I.ops[2].k # "cint" /\ I.w # 1) =>
                (countMul_asserts(Scale(I)) /\ countAdd_asserts(I.ops[1]))
           /\ ConstantOffset(I).bits # {} => countAdd_asserts(ConstantOffset(I))
      [] OTHER -> TRUE

\* m_Not(m_Value(X)): xor of X and all ones, either way round
m_Not(Fn, V) ==
    /\ V.k = "inst"
    /\ Fn.insts[V.id].op = "xor"
    /\ \E i \in 1 .. 2 : m_AllOnes(Fn.insts[V.id].ops[i])

\* the X that m_Not binds
notOperand(Fn, V) ==
    LET ops == Fn.insts[V.id].ops
    IN  IF m_AllOnes(ops[1]) THEN ops[2] ELSE ops[1]

visitBinaryOperator(Fn, I) ==
    CASE I.op = "add" -> countAdd(I.ops[1], I.ops[2])
      [] I.op = "sub" ->
           Effect(1, (IF ~m_Int(AddSubImmBits, I.ops[1]) THEN {I.ops[1]} ELSE {})
                     \cup {I.ops[2]})
      [] I.op \in {"shl", "ashr", "lshr"} ->
           Effect(1, IF ~m_Int(ShiftImmBits, I.ops[1]) THEN {I.ops[1]}
                     ELSE IF ~m_ShAmt(I.ops[2]) THEN {I.ops[2]}
                     ELSE {})
      [] I.op = "mul" -> countMul(I.ops[1], I.ops[2])
      [] I.op \in {"and", "or", "xor"} ->
           LET absorbL == m_Not(Fn, I.ops[1])
               LHS == IF absorbL THEN notOperand(Fn, I.ops[1]) ELSE I.ops[1]
               RHS == IF ~absorbL /\ m_Not(Fn, I.ops[2])
                      THEN notOperand(Fn, I.ops[2]) ELSE I.ops[2]
           IN  Effect(1, {LHS} \cup (IF ~m_BitImm(RHS) THEN {RHS} ELSE {}))

\* the instruction that defines V is an op
definedBy(Fn, V, op) == V.k = "inst" /\ Fn.insts[V.id].op = op

\* FNeg; m_FAbs(m_Value(Op)) rebinds Op to the argument of a call of fabs
visitUnaryOperator(Fn, I) ==
    LET Op == I.ops[1]
    IN  Effect(FCheapOpCost,
               {IF definedBy(Fn, Op, "fabs") THEN Fn.insts[Op.id].ops[1] ELSE Op})

\* the intrinsics abs, smax, copysign, fabs and minnum (which stands for
\* minnum, maxnum, minimum and maximum); operands: the arguments of the call
visitIntrinsicInst(Fn, I) ==
    CASE I.op = "abs" ->
           IF definedBy(Fn, I.ops[1], "sub")
           THEN Effect(1, Range(Fn.insts[I.ops[1].id].ops))
           ELSE Effect(1, {I.ops[1]})
      [] I.op = "smax" ->
           Effect(1, {I.ops[1]}
                     \cup (IF ~m_Int(MinMaxImmBits, I.ops[2]) THEN {I.ops[2]} ELSE {}))
      [] I.op = "copysign" ->
           LET Mag == I.ops[1]
               Sign == I.ops[2]
           IN  Effect(FCheapOpCost,
                      (IF ~m_FPImm(Mag) THEN {Mag} ELSE {})
                      \cup {IF definedBy(Fn, Sign, "fneg")
                            THEN Fn.insts[Sign.id].ops[1] ELSE Sign})
      [] I.op \in {"fabs", "minnum"} -> Effect(FCheapOpCost, {I.ops[1]})

\* visitCmp on integer operands
visitCmp(LHS, RHS) ==
    Effect(1, {LHS} \cup (IF ~m_Int(CmpImmBits, RHS) THEN {RHS} ELSE {}))

visitCmpInst(I) == visitCmp(I.ops[1], I.ops[2])

\* operands: condition, true value, false value
visitSelectInst(I) ==
    Effect(1, {I.ops[1]}
              \cup (IF ~m_Int(SelectImmBits, I.ops[2]) THEN {I.ops[2]} ELSE {})
              \cup (IF ~m_Int(SelectImmBits, I.ops[3]) THEN {I.ops[3]} ELSE {}))

visitReturnInst(I) == addOperands(I, JumpCost)
visitLoadInst(I) == addOperands(I, LoadStoreCost)
visitStoreInst(I) == addOperands(I, LoadStoreCost)

\* visitBranchInst with the budget of the compare instruction
visitBranchInst_CmpImmBits(Fn, I) ==
    IF /\ Len(I.succs) = 2
       /\ I.ops[1].k = "inst"
       /\ Fn.insts[I.ops[1].id].op = "icmp"
    THEN LET Cmp == Fn.insts[I.ops[1].id]
         IN  Effect(1, {Cmp.ops[1]}
                       \cup (IF ~m_Int(CmpImmBits, Cmp.ops[2])
                             THEN {Cmp.ops[2]} ELSE {}))
    ELSE addOperands(I, JumpCost)

visitBranchInst(Fn, I) ==
    IF /\ Len(I.succs) = 2
       /\ I.ops[1].k = "inst"
       /\ Fn.insts[I.ops[1].id].op = "icmp"
    THEN LET Cmp == Fn.insts[I.ops[1].id]
         IN  Effect(1, {Cmp.ops[1]}
                       \cup (IF ~m_Int(BranchCmpImmBits, Cmp.ops[2])
                             THEN {Cmp.ops[2]} ELSE {}))
    ELSE addOperands(I, JumpCost)

visitPHINode(I) == Effect(0, {})
visitUnreachableInst(I) == Effect(0, {})

\* SwitchInst::defaultDestUndefined: the default destination begins, after
\* its phis, with unreachable
defaultDestUndefined(Fn, I) ==
    LET blk == Fn.blocks[I.succs[1]]
        p == Min({q \in DOMAIN blk : Fn.insts[blk[q]].op # "phi"})
    IN  Fn.insts[blk[p]].op = "unreachable"

\* I.getNumCases() - I.defaultDestUndefined(): a difference of unsigned int
switchFactor(n, d) ==
    Wrap(32, AddBits(NatBits(n), IF d THEN 0 .. 31 ELSE {}))

\* operands: the condition, then the case values; successors: the default
\* destination, then those of the cases
visitSwitchInst(Fn, I) ==
    LET n == Len(I.ops) - 1
        jump == addOperands(I, JumpCost * BitsToNat(switchFactor(n, defaultDestUndefined(Fn, I))))
        RECURSIVE Cases(_)
        Cases(k) ==
            IF k > n THEN Effect(0, {})
            ELSE LET e == visitCmp(I.ops[1], I.ops[k + 1])
                     rest == Cases(k + 1)
                 IN  Effect(e.c + rest.c, e.r \cup rest.r)
    IN  Effect(jump.c + Cases(1).c, jump.r \cup Cases(1).r)

\* InstVisitor::visit
visit(Fn, I) ==
    CASE I.op \in {"add", "sub", "shl", "ashr", "lshr", "mul", "and", "or", "xor"} ->
           visitBinaryOperator(Fn, I)
      [] I.op = "fneg" -> visitUnaryOperator(Fn, I)
      [] I.op = "gep" -> visitGetElementPtrInst(I)
      [] I.op \in {"abs", "smax", "copysign", "fabs", "minnum"} -> visitIntrinsicInst(Fn, I)
      [] I.op = "icmp" -> visitCmpInst(I)
      [] I.op = "select" -> visitSelectInst(I)
      [] I.op = "ret" -> visitReturnInst(I)
      [] I.op = "load" -> visitLoadInst(I)
      [] I.op = "store" -> visitStoreInst(I)
      [] I.op = "br" -> visitBranchInst(Fn, I)
      [] I.op = "phi" -> visitPHINode(I)
      [] I.op = "switch" -> visitSwitchInst(Fn, I)
      [] I.op = "unreachable" -> visitUnreachableInst(I)

\* residualCost with the middle tier tested against LargeImmBits alone
residualCost_narrowMid(V) ==
    IF V.k = "cint" /\ V.w <= 64
    THEN IF isInt(LargeImmBits, getSExtValue(V)) THEN 1
         ELSE IF m_BitImm(V) THEN 1
         ELSE IF isInt(LargeImmBits, getSExtValue(V)) THEN 2
         ELSE LoadStoreCost
    ELSE IF V.k = "cfp"
    THEN IF fitsIEEEhalf(V) THEN FCheapOpCost ELSE LoadStoreCost
    ELSE 0

\* run, residual pass: what one requested value adds to Cost
residualCost(V) ==
    IF V.k = "cint" /\ V.w <= 64
    THEN IF isInt(LargeImmBits, getSExtValue(V)) THEN 1
         ELSE IF m_BitImm(V) THEN 1
         ELSE IF isInt(LargeImmBits + AddSubImmBits, getSExtValue(V)) THEN 2
         ELSE LoadStoreCost
    ELSE IF V.k = "cfp"
    THEN IF fitsIEEEhalf(V) THEN FCheapOpCost ELSE LoadStoreCost
    ELSE 0

\* run, pre-pass: the incoming values of the phis of block b
phiIncoming(Fn, b) ==
    IF isReachableFromEntry(Fn, b)
    THEN UNION {Range(Fn.insts[i].ops) :
                  i \in {j \in Range(Fn.blocks[b]) : Fn.insts[j].op = "phi"}}
    ELSE {}

\* isVisited without the test for dead instructions
isVisited_always(Fn, i, Req) == TRUE

\* run, traversal: whether instruction i is visited, given the requested set
isVisited(Fn, i, Req) ==
    InstV(i) \in Req \/ ~wouldInstructionBeTriviallyDead(Fn.insts[i])

\* the order in which the traversal decides the instructions
RECURSIVE Concat(_)
Concat(ss) == IF ss = <<>> THEN <<>> ELSE Head(ss) \o Concat(Tail(ss))
traversalOrder(Fn) ==
    Concat([k \in 1 .. Len(post_order(Fn)) |->
              Reverse(Fn.blocks[post_order(Fn)[k]])])

\* CostEstimator::run as a function of F: the cost it returns
RECURSIVE traverse(_, _, _)
traverse(Fn, order, st) ==
    IF order = <<>> THEN st
    ELSE LET i == Head(order)
             e == visit(Fn, Fn.insts[i])
         IN  traverse(Fn, Tail(order),
                      IF isVisited(Fn, i, st.r)
                      THEN Effect(st.c + e.c, st.r \cup e.r)
                      ELSE st)

RECURSIVE residualSum(_)
residualSum(S) ==
    IF S = {} THEN 0
    ELSE LET V == CHOOSE x \in S : TRUE
         IN  residualCost(V) + residualSum(S \ {V})

run(Fn) ==
    LET pre == UNION {phiIncoming(Fn, b) : b \in BlockIds(Fn)}
        st == traverse(Fn, traversalOrder(Fn), Effect(0, pre))
    IN  st.c + residualSum(st.r)

-----------------------------------------------------------------------------
(* Well-formed functions (what the IR verifier accepts).                   *)

\* the definition i is available to the non-phi instruction j
DefDominatesUse(Fn, i, j) ==
    LET bi == BlockOf(Fn, i)
        bj == BlockOf(Fn, j)
    IN  IF bi = bj THEN PosOf(Fn, i) < PosOf(Fn, j) \/ ~isReachableFromEntry(Fn, bj)
        ELSE Dominates(Fn, bi, bj)

WellFormed(Fn) ==
    /\ \A b \in BlockIds(Fn) :
         LET blk == Fn.blocks[b]
         IN  /\ blk # <<>>
             /\ \A p \in DOMAIN blk :
                  /\ (Fn.insts[blk[p]].op \in Terminators) <=> (p = Len(blk))
                  \* phis are grouped at the top of the block
                  /\ Fn.insts[blk[p]].op = "phi" =>
                       /\ \A q \in 1 .. (p - 1) : Fn.insts[blk[q]].op = "phi"
                       /\ Len(Fn.insts[blk[p]].ops) = Len(Preds(Fn, b))
                       /\ Preds(Fn, b) # <<>>
             \* one edge per predecessor, and none into the entry block
             /\ 1 \notin Range(Succs(Fn, b))
             /\ Cardinality(Range(Succs(Fn, b))) = Len(Succs(Fn, b))
    /\ \A j \in InstIds(Fn) :
         LET J == Fn.insts[j]
         IN  \A k \in DOMAIN J.ops :
               J.ops[k].k = "inst" =>
                 /\ J.ops[k].id \in InstIds(Fn)
                 /\ IF J.op = "phi"
                    THEN \* available at the end of the incoming block
                         Dominates(Fn, BlockOf(Fn, J.ops[k].id),
                                   Preds(Fn, BlockOf(Fn, j))[k])
                    ELSE DefDominatesUse(Fn, J.ops[k].id, j)

-----------------------------------------------------------------------------
(* The functions the estimator is run on.                                  *)

\* the most non-terminator instructions of a function with control flow
MaxInsts == 2

xArg == Arg(1, 32)   \* i32 %x
cArg == Arg(2, 1)    \* i1 %c
pArg == Arg(3, 0)    \* ptr %p
c5 == CInt(32, {0, 2})      \* i32 5
cBig == CInt(32, {0, 25})   \* i32 33554433: no immediate budget takes it

PredCount(shape, b) == Cardinality({a \in DOMAIN shape : b \in Range(shape[a])})

\* the function of the shape's branches alone
Skeleton(shape) ==
    [insts |-> [b \in DOMAIN shape |-> Inst("br", 0, <<>>, shape[b])],
     blocks |-> [b \in DOMAIN shape |-> <<b>>]]

\* Slots are the non-terminator instructions, numbered in block order; a
\* slot is first given its block and opcode, then its operands.
SlotOps == {"add", "store", "icmp", "phi"}
ResultWidth(op) == CASE op \in {"add", "phi"} -> 32
                     [] op = "icmp" -> 1
                     [] OTHER -> 0

\* the placements [b, op] of the slots 1..n: in block order, the phis grouped
\* at the top of a block that has predecessors
KindSeqs(shape, n) ==
    {ks \in [1 .. n -> [b : DOMAIN shape, op : SlotOps]] :
       \A k \in 1 .. n :
         /\ k > 1 => ks[k - 1].b <= ks[k].b
         /\ ks[k].op = "phi" =>
              /\ PredCount(shape, ks[k].b) > 0
              /\ \A i \in 1 .. (k - 1) : ks[i].b = ks[k].b => ks[i].op = "phi"}

\* the results of width w among the slots J that are available in block b
Avail(shape, ks, J, w, b) ==
    {InstV(j) : j \in {i \in J : /\ ResultWidth(ks[i].op) = w
                                 /\ Dominates(Skeleton(shape), ks[i].b, b)}}

\* the instructions slot k may be, given the placements ks
SlotChoices(shape, ks, k) ==
    LET b == ks[k].b
        IntSrc == {xArg} \cup Avail(shape, ks, 1 .. (k - 1), 32, b)
        P == Preds(Skeleton(shape), b)
        \* the sequences of incoming values for the predecessors i..Len(P)
        RECURSIVE Incoming(_)
        Incoming(i) ==
            IF i > Len(P) THEN {<<>>}
            ELSE {<<v>> \o vs :
                    v \in {cBig} \cup Avail(shape, ks, DOMAIN ks, 32, P[i]),
                    vs \in Incoming(i + 1)}
    IN  CASE ks[k].op = "add" -> {Inst("add", 32, <<l, cBig>>, <<>>) : l \in IntSrc}
          [] ks[k].op = "store" -> {Inst("store", 0, <<l, pArg>>, <<>>) : l \in IntSrc}
          [] ks[k].op = "icmp" -> {Inst("icmp", 1, <<l, c5>>, <<>>) : l \in IntSrc}
          [] ks[k].op = "phi" -> {Inst("phi", 32, vs, <<>>) : vs \in Incoming(1)}

RECURSIVE SlotSeqs(_, _, _)
SlotSeqs(shape, ks, k) ==
    IF k = 0 THEN {<<>>}
    ELSE {Append(s, [b |-> ks[k].b, i |-> c]) :
            s \in SlotSeqs(shape, ks, k - 1), c \in SlotChoices(shape, ks, k)}

\* the terminator of block b
TermChoices(shape, ks, b) ==
    CASE Len(shape[b]) = 0 ->
           {Inst("ret", 0, <<v>>, shape[b]) :
              v \in {xArg} \cup Avail(shape, ks, DOMAIN ks, 32, b)}
      [] Len(shape[b]) = 1 -> {Inst("br", 0, <<>>, shape[b])}
      [] Len(shape[b]) = 2 ->
           {Inst("br", 0, <<v>>, shape[b]) :
              v \in {cArg} \cup Avail(shape, ks, DOMAIN ks, 1, b)}

RECURSIVE TermSeqs(_, _, _)
TermSeqs(shape, ks, b) ==
    IF b = 0 THEN {<<>>}
    ELSE {Append(t, c) : t \in TermSeqs(shape, ks, b - 1),
                         c \in TermChoices(shape, ks, b)}

\* the function of slots (ids 1..n) and terminators (ids n+1..n+blocks)
MkFn(slots, terms) ==
    LET n == Len(slots)
        RECURSIVE Pick(_, _)
        Pick(b, k) == IF k > n THEN <<>>
                      ELSE (IF slots[k].b = b THEN <<k>> ELSE <<>>) \o Pick(b, k + 1)
    IN  [insts |-> [i \in 1 .. (n + Len(terms)) |->
                      IF i <= n THEN slots[i].i ELSE terms[i - n]],
         blocks |-> [b \in 1 .. Len(terms) |-> Append(Pick(b, 1), n + b)]]

\* operands have the type their position asks for
TypeOK(Fn) ==
    \A j \in InstIds(Fn) :
      \A k \in DOMAIN Fn.insts[j].ops :
        LET V == Fn.insts[j].ops[k]
        IN  V.k = "inst" =>
              Fn.insts[V.id].w = (IF Fn.insts[j].op = "br" THEN 1 ELSE 32)

\* F is a function with control flow: a graph, at most MaxInsts slots, their
\* operands and the terminators
IsCFGFunction(Fn) ==
    \E shape \in CFGShapes, n \in 0 .. MaxInsts :
      \E ks \in KindSeqs(shape, n) :
        \E s \in SlotSeqs(shape, ks, n), t \in TermSeqs(shape, ks, Len(shape)) :
          /\ Fn = MkFn(s, t)
          /\ TypeOK(Fn) /\ WellFormed(Fn)

\* integer types of the constants: i8, i32, i48, i64, i128
IntWidths == {8, 32, 48, 64, 128}

\* bit positions next to the limits of the immediate budgets
EdgeBits(w) ==
    {p \in {0, 2, 7, AddSubImmBits - 2, AddSubImmBits - 1, AddSubImmBits,
            LargeImmBits - 2, LargeImmBits - 1, LargeImmBits,
            LargeImmBits + AddSubImmBits - 2, LargeImmBits + AddSubImmBits - 1,
            LargeImmBits + AddSubImmBits, w - 2, w - 1} : 0 <= p /\ p < w}

\* integer constants of width w: 0, 2^p, 2^(p+1) - 1, -(2^p), 2^p + 1, 2^p + 5
IntConstants(w) ==
    {CInt(w, {})}
    \cup UNION {{CInt(w, {p}), CInt(w, 0 .. p), CInt(w, p .. (w - 1)),
                 CInt(w, {0, p}), CInt(w, {0, 2, p})} : p \in EdgeBits(w)}

\* floating constants: 0.0, 1.0, 65504.0, 65536.0, 2^-24, 2^-25, 1 + 2^-23
FPConstants ==
    {CFP(w, 0, {}) : w \in {32, 64}}
    \cup {CFP(w, 0, {0}) : w \in {32, 64}}
    \cup {CFP(32, 5, 0 .. 10), CFP(32, 16, {0}), CFP(32, -24, {0}),
          CFP(32, -25, {0}), CFP(32, -23, {0, 23})}

\* a = x + c; return a
AddRet(w, c) ==
    [insts |-> <<Inst("add", w, <<Arg(1, w), c>>, <<>>),
                 Inst("ret", 0, <<InstV(1)>>, <<>>)>>,
     blocks |-> <<<<1, 2>>>>]

\* return c
RetConst(c) ==
    [insts |-> <<Inst("ret", 0, <<c>>, <<>>)>>, blocks |-> <<<<1>>>>]

\* store c, p; store c, q; return c
StoreRet(c) ==
    [insts |-> <<Inst("store", 0, <<c, pArg>>, <<>>),
                 Inst("store", 0, <<c, Arg(4, 0)>>, <<>>),
                 Inst("ret", 0, <<c>>, <<>>)>>,
     blocks |-> <<<<1, 2, 3>>>>]

\* c = icmp x, k; br c, A, B; A: return x; B: return x
BrCmp(w, k) ==
    [insts |-> <<Inst("icmp", 1, <<Arg(1, w), k>>, <<>>),
                 Inst("br", 0, <<InstV(1)>>, <<2, 3>>),
                 Inst("ret", 0, <<Arg(1, w)>>, <<>>),
                 Inst("ret", 0, <<Arg(1, w)>>, <<>>)>>,
     blocks |-> <<<<1, 2>>, <<3>>, <<4>>>>]

\* constants next to the limits of the compare budgets: 0, 15, 16, -16, -17,
\* 2047, 2048, -2048, -2049
CmpConstants(w) ==
    {CInt(w, {}), CInt(w, 0 .. 3), CInt(w, {4}), CInt(w, 4 .. (w - 1)),
     CInt(w, (0 .. (w - 1)) \ {4}), CInt(w, 0 .. 10), CInt(w, {11}),
     CInt(w, 11 .. (w - 1)), CInt(w, (0 .. (w - 1)) \ {11})}

BranchFunctions == UNION {{BrCmp(w, k) : k \in CmpConstants(w)} : w \in {32, 64}}

\* a = x op c; return a
BinRet(op, w, c) ==
    [insts |-> <<Inst(op, w, <<Arg(1, w), c>>, <<>>),
                 Inst("ret", 0, <<InstV(1)>>, <<>>)>>,
     blocks |-> <<<<1, 2>>>>]

\* constants for the bitwise operations: those of IntConstants and 0x3FE,
\* 0xFF00, 0x500, 0x1FE00 and the bytes 0x05 and 0xF0 repeated
BitConstants(w) ==
    IntConstants(w)
    \cup {CInt(w, b \cap (0 .. (w - 1))) : b \in {1 .. 9, 8 .. 15, {8, 10}, 9 .. 16}}
    \cup {CInt(w, {b \in 0 .. (w - 1) : b % 8 \in r}) : r \in {{0, 2}, 4 .. 7}}

BitwiseFunctions ==
    UNION {{BinRet(op, w, c) : op \in {"and", "or", "xor"}, c \in BitConstants(w)} :
             w \in {8, 32, 64}}

yArg == Arg(2, 32)   \* the second parameter, i32 or float
allOnes == CInt(32, 0 .. 31)

\* s = op1 (a1); a = op2 (a2), with s among a2; return a
Chain(op1, a1, op2, a2) ==
    [insts |-> <<Inst(op1, 32, a1, <<>>), Inst(op2, 32, a2, <<>>),
                 Inst("ret", 0, <<InstV(2)>>, <<>>)>>,
     blocks |-> <<<<1, 2, 3>>>>]

\* functions whose second instruction uses the result of the first:
\* shifts of a parameter, of 1 and of a large constant by a computed amount;
\* minima; and the pairs that a visit absorbs
ChainFunctions ==
    {Chain("add", <<yArg, c5>>, op, <<b, InstV(1)>>) :
       op \in {"shl", "lshr", "ashr"}, b \in {xArg, CInt(32, {0}), cBig}}
    \cup {Chain("add", <<yArg, c5>>, "shl", <<InstV(1), a>>) :
            a \in {yArg, c5, CInt(32, {6})}}
    \cup {Chain("add", <<yArg, c5>>, "smax", a) :
            a \in {<<xArg, InstV(1)>>, <<InstV(1), c5>>, <<InstV(1), cBig>>}}
    \cup {Chain("fneg", <<yArg>>, "minnum", a) :
            a \in {<<xArg, InstV(1)>>, <<InstV(1), xArg>>}}
    \cup {Chain("xor", n, op, a) :
            n \in {<<yArg, allOnes>>, <<allOnes, yArg>>, <<yArg, c5>>},
            op \in {"and", "or", "xor"},
            a \in {<<InstV(1), xArg>>, <<xArg, InstV(1)>>, <<InstV(1), InstV(1)>>,
                   <<InstV(1), c5>>}}
    \cup {Chain(op1, <<yArg>>, "fneg", <<InstV(1)>>) : op1 \in {"fabs", "fneg"}}
    \cup {Chain(op1, <<yArg>>, "copysign", a) :
            op1 \in {"fabs", "fneg"},
            a \in {<<xArg, InstV(1)>>, <<InstV(1), xArg>>,
                   <<CFP(32, 0, {0}), InstV(1)>>, <<CFP(32, 5, 0 .. 10), InstV(1)>>}}
    \cup {Chain(op1, <<xArg, yArg>>, "abs", <<InstV(1), CInt(1, {})>>) :
            op1 \in {"sub", "add"}}

\* g = getelementptr (a type of size bytes), p, i; return g
GepRet(size, p, i) ==
    [insts |-> <<Inst("gep", size, <<p, i>>, <<>>),
                 Inst("ret", 0, <<InstV(1)>>, <<>>)>>,
     blocks |-> <<<<1, 2>>>>]

\* additions of 0, multiplications by 0, 1, 2, 5 and a large constant, and
\* address computations on a parameter and on the null pointer
ArithmeticFunctions ==
    {BinRet("add", w, CInt(w, {})) : w \in {32, 64}}
    \cup {BinRet("mul", 32, c) :
            c \in {CInt(32, {}), CInt(32, {0}), CInt(32, {1}), c5, cBig, yArg}}
    \cup {GepRet(size, p, i) :
            size \in {1, 4, 12}, p \in {pArg, Null},
            i \in {Arg(1, 64), CInt(64, {}), CInt(64, {0, 1}), CInt(64, 0 .. 63)}}

\* switch x, default D [ks[1] -> A1, ...]; D: unreachable or return x;
\* Ai: return x
SwitchFn(ks, undef) ==
    LET n == Len(ks)
    IN  [insts |-> <<Inst("switch", 0, <<xArg>> \o ks, [k \in 1 .. (n + 1) |-> k + 1]),
                     IF undef THEN Inst("unreachable", 0, <<>>, <<>>)
                              ELSE Inst("ret", 0, <<xArg>>, <<>>)>>
                   \o [k \in 1 .. n |-> Inst("ret", 0, <<xArg>>, <<>>)],
         blocks |-> [b \in 1 .. (n + 2) |-> <<b>>]]

\* case values: 5, 2047, 2048, 33554433
CaseValues == {c5, CInt(32, 0 .. 10), CInt(32, {11}), cBig}

\* the switches of up to MaxCases distinct case values.  The switch without
\* cases whose default destination is unreachable is left out: its charge,
\* JumpCost * (0u - 1) = 4294967295, is beyond the integers of the model.
SwitchFunctions ==
    {SwitchFn(ks, undef) :
       ks \in {s \in UNION {[1 .. n -> CaseValues] : n \in 0 .. MaxCases} :
                 \A i, j \in DOMAIN s : i # j => s[i] # s[j]},
       undef \in BOOLEAN} \ {SwitchFn(<<>>, TRUE)}

StraightFunctions ==
    UNION {{AddRet(w, c) : c \in IntConstants(w) \ {CInt(w, {})}} : w \in IntWidths}
    \cup UNION {{RetConst(c) : c \in IntConstants(w)} : w \in IntWidths}
    \cup {RetConst(c) : c \in FPConstants}
    \cup UNION {{StoreRet(c) : c \in IntConstants(w)} : w \in {32, 64}}

-----------------------------------------------------------------------------
(* CostEstimator::run, step by step.                                       *)

encIdle ==
    /\ OpsTable = <<>> /\ pairI = 0 /\ pairJ = 0 /\ Constraints = {}
    /\ Res = "none" /\ Model = <<>> /\ Out = <<>> /\ ExitStatus = -1
matIdle == FileLines = <<>> /\ lineIdx = 0 /\ sum = {}
batchIdle ==
    /\ InputDir = <<>> /\ Entries = <<>> /\ InputFiles = <<>> /\ fileIdx = 0
    /\ CostTable = <<>> /\ Writer = <<>> /\ Report = <<>>
estIdle ==
    /\ F = <<>> /\ Cost = 0 /\ RequestedValues = {} /\ prepassIdx = 0
    /\ poIdx = 0 /\ instIdx = 0 /\ decided = {} /\ visited = {}
    /\ residualLeft = {}

Init ==
    /\ \/ IsCFGFunction(F)
       \/ F \in StraightFunctions
       \/ F \in BranchFunctions
       \/ F \in SwitchFunctions
       \/ F \in BitwiseFunctions
       \/ F \in ChainFunctions
       \/ F \in ArithmeticFunctions
    /\ pc = "prepass"
    /\ Cost = 0
    /\ RequestedValues = {}
    /\ prepassIdx = 1
    /\ poIdx = 0
    /\ instIdx = 0
    /\ decided = {}
    /\ visited = {}
    /\ residualLeft = {}
    /\ encIdle /\ matIdle /\ batchIdle

\* the instruction the traversal is at
current == F.blocks[post_order(F)[poIdx]][instIdx]

\* run, first loop: one block of "for (auto &BB : F)"
PrePass ==
    /\ pc = "prepass"
    /\ RequestedValues' = RequestedValues \cup phiIncoming(F, prepassIdx)
    /\ IF prepassIdx < Len(F.blocks)
       THEN /\ prepassIdx' = prepassIdx + 1
            /\ UNCHANGED <<pc, poIdx, instIdx>>
       ELSE /\ pc' = "traverse"
            /\ poIdx' = 1
            /\ instIdx' = Len(F.blocks[post_order(F)[1]])
            /\ UNCHANGED prepassIdx
    /\ UNCHANGED <<F, Cost, decided, visited, residualLeft>>
    /\ UNCHANGED <<encVars, matVars, batchVars>>

\* the traversal moves to the instruction before, to the next block of
\* post_order(&F), or on to the residual pass over what is requested by then
Advance(Req) ==
    IF instIdx > 1
    THEN /\ instIdx' = instIdx - 1
         /\ UNCHANGED <<pc, poIdx, residualLeft>>
    ELSE IF poIdx < Len(post_order(F))
    THEN /\ poIdx' = poIdx + 1
         /\ instIdx' = Len(F.blocks[post_order(F)[poIdx + 1]])
         /\ UNCHANGED <<pc, residualLeft>>
    ELSE /\ pc' = "residual"
         /\ residualLeft' = Req
         /\ UNCHANGED <<poIdx, instIdx>>

\* run, second loop: the instruction is requested or not trivially dead
VisitInstruction ==
    /\ pc = "traverse"
    /\ isVisited(F, current, RequestedValues)
    /\ LET e == visit(F, F.insts[current])
       IN  /\ Cost' = Cost + e.c
           /\ RequestedValues' = RequestedValues \cup e.r
           /\ Advance(RequestedValues \cup e.r)
    /\ decided' = decided \cup {current}
    /\ visited' = visited \cup {current}
    /\ UNCHANGED <<F, prepassIdx>>
    /\ UNCHANGED <<encVars, matVars, batchVars>>

\* run, second loop: an assertion of the visit fails and the process is
\* aborted.  This is the build with assertions; in the build with NDEBUG the
\* assertions are not evaluated and VisitInstruction is taken instead.
AssertionFailure ==
    /\ pc = "traverse"
    /\ isVisited(F, current, RequestedValues)
    /\ ~assertionsHold(F.insts[current])
    /\ pc' = "aborted"
    /\ UNCHANGED estVars
    /\ UNCHANGED <<encVars, matVars, batchVars>>

\* run, second loop: the instruction is trivially dead and is skipped
SkipInstruction ==
    /\ pc = "traverse"
    /\ ~isVisited(F, current, RequestedValues)
    /\ Advance(RequestedValues)
    /\ decided' = decided \cup {current}
    /\ UNCHANGED <<F, Cost, RequestedValues, prepassIdx, visited>>
    /\ UNCHANGED <<encVars, matVars, batchVars>>

\* run, third loop: one requested value.  The set is iterated in the order
\* of its pointers; the charges commute, so the model fixes one order.
Residual ==
    /\ pc = "residual"
    /\ residualLeft # {}
    /\ LET V == CHOOSE x \in residualLeft : TRUE
       IN  /\ Cost' = Cost + residualCost(V)
           /\ residualLeft' = residualLeft \ {V}
    /\ UNCHANGED <<pc, F, RequestedValues, prepassIdx, poIdx, instIdx, decided,
                   visited>>
    /\ UNCHANGED <<encVars, matVars, batchVars>>

\* return Cost
Return ==
    /\ pc = "residual"
    /\ residualLeft = {}
    /\ pc' = "done"
    /\ UNCHANGED estVars
    /\ UNCHANGED <<encVars, matVars, batchVars>>

Next ==
    \/ PrePass
    \/ VisitInstruction
    \/ AssertionFailure
    \/ SkipInstruction
    \/ Residual
    \/ Return

Spec == Init /\ [][Next]_vars

-----------------------------------------------------------------------------
(* Properties of CostEstimator::run.                                       *)

\* the function without instruction d
DeleteInst(Fn, d) ==
    [Fn EXCEPT !.blocks[BlockOf(Fn, d)] = RemoveAt(@, PosOf(Fn, d))]

\* the instructions with no side effect and no use
DeadInsts(Fn) ==
    {d \in InstIds(Fn) : /\ wouldInstructionBeTriviallyDead(Fn.insts[d])
                         /\ Users(Fn, InstV(d)) = {}}

\* what the traversal alone charges
traversalCost(Fn) ==
    traverse(Fn, traversalOrder(Fn),
             Effect(0, UNION {phiIncoming(Fn, b) : b \in BlockIds(Fn)})).c

\* the integer constant c, of any width, is in [-2^(K-1), 2^(K-1))
fitsSigned(K, c) ==
    LET top == (K - 1) .. (c.w - 1)
    IN  top \subseteq c.bits \/ top \cap c.bits = {}

\* the step-by-step run returns what run(F) computes
RunAgrees == pc = "done" => Cost = run(F)

\* F is "a = x + c; return a" for an integer constant c
IsAddRet(Fn) ==
    /\ Len(Fn.blocks) = 1
    /\ Len(Fn.insts) = 2
    /\ Fn.insts[1].op = "add"
    /\ Fn.insts[1].ops[2].k = "cint"
    /\ Fn = AddRet(Fn.insts[1].w, Fn.insts[1].ops[2])

\* the constant c of "a = x + c; return a"
Addend(Fn) == Fn.insts[1].ops[2]

\* C1: a = x + c; return a, with x of any integer width up to 64 bits and c
\* a non-zero constant within signed AddSubImmBits bits, costs 1 + JumpCost,
\* and c is not requested when the residual pass runs.
C1_FoldLaw ==
    ( /\ IsAddRet(F)
      /\ Addend(F).w <= 64
      /\ Addend(F).bits # {}
      /\ fitsSigned(AddSubImmBits, Addend(F)) ) =>
        /\ pc \in {"residual", "done"} => Addend(F) \notin RequestedValues
        /\ pc = "done" => Cost = 1 + JumpCost

\* the same law for the widths below 64 bits, which does hold
FoldLawBelow64 ==
    ( /\ IsAddRet(F)
      /\ Addend(F).w < 64
      /\ Addend(F).bits # {}
      /\ fitsSigned(AddSubImmBits, Addend(F)) ) =>
        /\ pc \in {"residual", "done"} => Addend(F) \notin RequestedValues
        /\ pc = "done" => Cost = 1 + JumpCost

\* a = x + 1; return a of i64 was run: 1 was requested and charged
C1_Witness ==
    /\ pc = "done"
    /\ F = AddRet(64, CInt(64, {0}))
    /\ CInt(64, {0}) \in RequestedValues
    /\ Cost = 1 + 1 + JumpCost

\* C2 as stated: a = x + c; return a, with c outside signed AddSubImmBits
\* bits but within signed LargeImmBits + AddSubImmBits bits, costs
\* 1 + 2 + JumpCost.
C2_NonFoldLaw_Original ==
    ( /\ IsAddRet(F)
      /\ Addend(F).w <= 64
      /\ ~fitsSigned(AddSubImmBits, Addend(F))
      /\ fitsSigned(LargeImmBits + AddSubImmBits, Addend(F))
      /\ pc = "done" ) => Cost = 1 + 2 + JumpCost

\* C2, amended: a = x + c; return a, with c outside signed LargeImmBits bits,
\* not a bit-pattern immediate, and within signed LargeImmBits +
\* AddSubImmBits bits, costs 1 + 2 + JumpCost.
C2_NonFoldLaw ==
    ( /\ IsAddRet(F)
      /\ Addend(F).w <= 64
      /\ ~fitsSigned(LargeImmBits, Addend(F))
      /\ ~m_BitImm(Addend(F))
      /\ fitsSigned(LargeImmBits + AddSubImmBits, Addend(F))
      /\ pc = "done" ) => Cost = 1 + 2 + JumpCost

C2_Witness ==
    /\ pc = "done"
    /\ F = AddRet(32, CInt(32, {0, LargeImmBits}))
    /\ CInt(32, {0, LargeImmBits}) \in RequestedValues
    /\ Cost = 4

IsRetConst(Fn) ==
    /\ Len(Fn.blocks) = 1
    /\ Len(Fn.insts) = 1
    /\ Fn.insts[1].ops[1].k \in {"cint", "cfp"}

\* the materialization tier of a constant, as C4 states it
statedTier(V) ==
    CASE V.k = "cint" ->
           IF fitsSigned(LargeImmBits, V) \/ m_BitImm(V) THEN 1
           ELSE IF fitsSigned(LargeImmBits + AddSubImmBits, V) THEN 2
           ELSE LoadStoreCost
      [] V.k = "cfp" -> IF fitsIEEEhalf(V) THEN FCheapOpCost ELSE LoadStoreCost
      [] OTHER -> 0

\* the same, with nothing charged for an integer wider than 64 bits
amendedTier(V) == IF V.k = "cint" /\ V.w > 64 THEN 0 ELSE statedTier(V)

RECURSIVE statedTierSum(_)
statedTierSum(S) ==
    IF S = {} THEN 0
    ELSE LET V == CHOOSE x \in S : TRUE
         IN  statedTier(V) + statedTierSum(S \ {V})

RECURSIVE amendedTierSum(_)
amendedTierSum(S) ==
    IF S = {} THEN 0
    ELSE LET V == CHOOSE x \in S : TRUE
         IN  amendedTier(V) + amendedTierSum(S \ {V})

\* C4 as stated: the run returns the traversal's charges plus, once for each
\* requested constant however many instructions use it, its tier: an integer
\* 1 within signed LargeImmBits bits or the bit-pattern budget, else 2 within
\* signed LargeImmBits + AddSubImmBits bits, else LoadStoreCost; a floating
\* constant FCheapOpCost if it round-trips through half, else LoadStoreCost.
\* "return c" with c in the cheapest tier costs JumpCost + 1.
C4_Residual_Original ==
    pc = "done" =>
      /\ Cost = traversalCost(F) + statedTierSum(RequestedValues)
      /\ ( /\ IsRetConst(F)
           /\ F.insts[1].ops[1].k = "cint"
           /\ statedTier(F.insts[1].ops[1]) = 1 ) => Cost = JumpCost + 1

\* what the run does return: the tiers as stated for the integer constants of
\* at most 64 bits and for the floating constants, nothing for an integer
\* constant wider than 64 bits
ResidualUpTo64 ==
    pc = "done" =>
      /\ Cost = traversalCost(F) + amendedTierSum(RequestedValues)
      /\ ( /\ IsRetConst(F)
           /\ F.insts[1].ops[1].k = "cint"
           /\ F.insts[1].ops[1].w <= 64
           /\ statedTier(F.insts[1].ops[1]) = 1 ) => Cost = JumpCost + 1

\* 2^36 of i64, used by two stores and the return, was charged once
ChargedOnce ==
    /\ pc = "done"
    /\ F = StoreRet(CInt(64, {LargeImmBits + AddSubImmBits}))
    /\ Cardinality(Users(F, CInt(64, {LargeImmBits + AddSubImmBits}))) = 3
    /\ Cost = 2 * LoadStoreCost + JumpCost + LoadStoreCost

\* C10: when the traversal decides an instruction I, every non-phi
\* instruction of a reachable block that uses I has been decided and every
\* phi of a reachable block that uses I had its incoming values requested;
\* and no instruction that was skipped is requested afterwards.
C10_UsesBeforeDefs ==
    /\ pc = "traverse" =>
         \A j \in Users(F, InstV(current)) :
           isReachableFromEntry(F, BlockOf(F, j)) =>
             IF F.insts[j].op = "phi"
             THEN InstV(current) \in RequestedValues
             ELSE j \in decided
    /\ \A i \in decided \ visited : InstV(i) \notin RequestedValues

\* the traversal is about to decide an instruction of a loop that is used by
\* a non-phi instruction of another block and by a phi across the back edge
C10_Witness ==
    /\ pc = "traverse"
    /\ CFGOf(F) = <<<<2>>, <<3, 4>>, <<2>>, <<>>>>
    /\ BlockOf(F, current) = 2
    /\ \E j \in Users(F, InstV(current)) :
         F.insts[j].op # "phi" /\ BlockOf(F, j) = 3 /\ j \in visited
    /\ \E j \in Users(F, InstV(current)) : F.insts[j].op = "phi"

-----------------------------------------------------------------------------
(* encode.cpp: the opcode prefix solver.  A bit-vector is a record of its   *)
(* size and the positions of its one bits, position 0 the least             *)
(* significant.                                                             *)

MaxOps == 3       \* most operations in a table
MaxPrefix == 2    \* longest opcode prefix of a table

BV(w, bits) == [w |-> w, bits |-> bits]
BitVectors(w) == {BV(w, b) : b \in SUBSET (0 .. w - 1)}

\* the tables that pass isUnique and isDecodable: operation i has the
\* mnemonic i and a Length below InstructionBits
OpTables ==
    UNION {[1 .. n -> {[Mnemonic |-> m, Length |-> InstructionBits - p] :
                         m \in 1 .. MaxOps, p \in 1 .. MaxPrefix}] :
           n \in 1 .. MaxOps}

isUnique(Ops) ==
    \A i \in 1 .. Len(Ops) : \A j \in (i + 1) .. Len(Ops) :
      Ops[i].Mnemonic # Ops[j].Mnemonic

isDecodable(Ops) == \A i \in 1 .. Len(Ops) : ~(Ops[i].Length >= InstructionBits)

ValidTables ==
    {Ops \in OpTables :
       /\ \A i \in 1 .. Len(Ops) : Ops[i].Mnemonic = i
       /\ isUnique(Ops)
       /\ isDecodable(Ops)}

PrefixLength(Ops, i) == InstructionBits - Ops[i].Length

\* z3::expr::extract(hi, lo)
extract(V, hi, lo) == BV(hi - lo + 1, {b - lo : b \in V.bits \cap (lo .. hi)})

\* Trunc with the low bits kept instead of the high ones
Trunc_low(V, Size) == IF V.w # Size THEN extract(V, Size - 1, 0) ELSE V

\* the lambda Trunc: the Size most significant bits of V
Trunc(V, Size) == IF V.w # Size THEN extract(V, V.w - 1, V.w - Size) ELSE V

\* the assertion that the loop adds for the pair i < j
Constraint(Ops, i, j) ==
    <<i, j, Min({PrefixLength(Ops, i), PrefixLength(Ops, j)})>>

\* an assignment of a bit-vector to every Vars[i] satisfies LHS != RHS
Satisfies(M, c) == Trunc(M[c[1]], c[3]) # Trunc(M[c[2]], c[3])

\* the assignments of the sorts that bv_const declares
Assignments(Ops) ==
    {M \in [1 .. Len(Ops) -> UNION {BitVectors(p) : p \in 1 .. MaxPrefix}] :
       \A i \in 1 .. Len(Ops) : M[i].w = PrefixLength(Ops, i)}

Models(Ops, Cs) == {M \in Assignments(Ops) : \A c \in Cs : Satisfies(M, c)}

\* z3::expr::as_binary of a numeral: its binary digits, the most significant
\* first, without leading zeros
as_binary(V) ==
    IF V.bits = {} THEN <<0>>
    ELSE LET n == Max(V.bits) + 1
         IN  [k \in 1 .. n |-> IF (n - k) \in V.bits THEN 1 ELSE 0]

\* operator<< under std::setw(W) and std::setfill('0'): padded on the left
setw0(W, str) ==
    IF Len(str) >= W THEN str ELSE [k \in 1 .. (W - Len(str)) |-> 0] \o str

\* the line "unsat"
UnsatLine == [text |-> "unsat"]

\* one line of the assignment
Line(Ops, M, i) ==
    [Mnemonic |-> Ops[i].Mnemonic,
     bin |-> setw0(InstructionBits - Ops[i].Length, as_binary(M[i]))]

InitEncode ==
    /\ OpsTable \in ValidTables
    /\ pc = "constraints"
    /\ pairI = 1
    /\ pairJ = 2
    /\ Constraints = {}
    /\ Res = "none"
    /\ Model = <<>>
    /\ Out = <<>>
    /\ ExitStatus = -1
    /\ estIdle /\ matIdle /\ batchIdle

\* one iteration of the inner loop over j, or the step of the outer loop
AddConstraint ==
    /\ pc = "constraints"
    /\ pairI <= Len(OpsTable)
    /\ IF pairJ <= Len(OpsTable)
       THEN /\ Constraints' = Constraints \cup {Constraint(OpsTable, pairI, pairJ)}
            /\ pairJ' = pairJ + 1
            /\ UNCHANGED pairI
       ELSE /\ pairI' = pairI + 1
            /\ pairJ' = pairI + 2
            /\ UNCHANGED Constraints
    /\ UNCHANGED <<pc, OpsTable, Res, Model, Out, ExitStatus>>
    /\ UNCHANGED <<estVars, matVars, batchVars>>

\* Solver.check() answers sat with one of the models of the assertions
CheckSat ==
    /\ pc = "constraints"
    /\ pairI > Len(OpsTable)
    /\ \E M \in Models(OpsTable, Constraints) :
         /\ Res' = "sat"
         /\ Model' = M
    /\ pc' = "print"
    /\ UNCHANGED <<OpsTable, pairI, pairJ, Constraints, Out, ExitStatus>>
    /\ UNCHANGED <<estVars, matVars, batchVars>>

\* Solver.check() answers unsat: the assertions have no model
CheckUnsat ==
    /\ pc = "constraints"
    /\ pairI > Len(OpsTable)
    /\ Models(OpsTable, Constraints) = {}
    /\ Res' = "unsat"
    /\ pc' = "print"
    /\ UNCHANGED <<OpsTable, pairI, pairJ, Constraints, Model, Out, ExitStatus>>
    /\ UNCHANGED <<estVars, matVars, batchVars>>

\* Solver.check() gives up: z3::unknown, whatever the assertions
CheckUnknown ==
    /\ pc = "constraints"
    /\ pairI > Len(OpsTable)
    /\ Res' = "unknown"
    /\ pc' = "print"
    /\ UNCHANGED <<OpsTable, pairI, pairJ, Constraints, Model, Out, ExitStatus>>
    /\ UNCHANGED <<estVars, matVars, batchVars>>

\* if (Res == z3::sat): a line for every operation, EXIT_SUCCESS
PrintAssignment ==
    /\ pc = "print"
    /\ Res = "sat"
    /\ Out' = [i \in 1 .. Len(OpsTable) |-> Line(OpsTable, Model, i)]
    /\ ExitStatus' = 0
    /\ pc' = "exit"
    /\ UNCHANGED <<OpsTable, pairI, pairJ, Constraints, Res, Model>>
    /\ UNCHANGED <<estVars, matVars, batchVars>>

\* else: "unsat", EXIT_FAILURE
PrintUnsat ==
    /\ pc = "print"
    /\ ~(Res = "sat")
    /\ Out' = <<UnsatLine>>
    /\ ExitStatus' = 1
    /\ pc' = "exit"
    /\ UNCHANGED <<OpsTable, pairI, pairJ, Constraints, Res, Model>>
    /\ UNCHANGED <<estVars, matVars, batchVars>>

NextEncode ==
    \/ AddConstraint
    \/ CheckSat
    \/ CheckUnsat
    \/ CheckUnknown
    \/ PrintAssignment
    \/ PrintUnsat

SpecEncode == InitEncode /\ [][NextEncode]_vars

\* the first Size characters of a printed pattern
Prefix(str, Size) == SubSeq(str, 1, Size)

\* a table has a pairwise non-colliding assignment of prefixes: patterns,
\* as strings of the prefix lengths, no two agreeing on the shorter length
Feasible(Ops) ==
    \E P \in [1 .. Len(Ops) -> UNION {[1 .. p -> {0, 1}] : p \in 1 .. MaxPrefix}] :
      /\ \A i \in 1 .. Len(Ops) : Len(P[i]) = PrefixLength(Ops, i)
      /\ \A i, j \in 1 .. Len(Ops) :
           i # j => LET Size == Min({Len(P[i]), Len(P[j])})
                    IN  Prefix(P[i], Size) # Prefix(P[j], Size)

\* what was printed is an assignment without collisions
Decodable ==
    /\ Len(Out) = Len(OpsTable)
    /\ \A i \in 1 .. Len(Out) :
         /\ Out[i].Mnemonic = OpsTable[i].Mnemonic
         /\ Len(Out[i].bin) = InstructionBits - OpsTable[i].Length
    /\ \A i, j \in 1 .. Len(Out) :
         i # j => LET Size == Min({Len(Out[i].bin), Len(Out[j].bin)})
                  IN  Prefix(Out[i].bin, Size) # Prefix(Out[j].bin, Size)

\* C5: whenever the solver reports satisfiable, the printed assignment gives
\* every operation a pattern of exactly InstructionBits - Length bits, and
\* the patterns of two distinct operations, cut to the shorter of the two
\* lengths from the most significant end, differ.
C5_Decodability == (pc = "exit" /\ Res = "sat") => Decodable

\* three operations, of prefix lengths 2, 1 and 2, were printed, a pattern
\* with a leading zero among them; and two operations of 2-bit prefixes
\* can get two distinct patterns
C5_Witness ==
    /\ pc = "exit"
    /\ Res = "sat"
    /\ Len(OpsTable) = 3
    /\ PrefixLength(OpsTable, 1) = 2
    /\ PrefixLength(OpsTable, 2) = 1
    /\ PrefixLength(OpsTable, 3) = 2
    /\ Out[1].bin = <<0, 1>>
    /\ Out[2].bin = <<1>>
    /\ Out[3].bin = <<0, 0>>

\* C6: "unsat" and a non-zero exit status are what the solver prints
\* exactly when the table has no pairwise non-colliding assignment; it never
\* prints a colliding assignment, and never prints "unsat" for a table that
\* has an assignment or for an outcome of the solver other than unsat.
C6_InfeasibilityReporting ==
    pc = "exit" =>
      /\ (Out = <<UnsatLine>> /\ ExitStatus # 0) <=> ~Feasible(OpsTable)
      /\ Out # <<UnsatLine>> => Decodable
      /\ Out = <<UnsatLine>> => Res = "unsat"

\* the two halves of C6 that do hold: an assignment that is printed does not
\* collide, and a solver that answers unsat has an infeasible table
C6_NoCollidingAssignment ==
    pc = "exit" =>
      /\ Out # <<UnsatLine>> => (Decodable /\ Feasible(OpsTable) /\ ExitStatus = 0)
      /\ Res = "unsat" => (~Feasible(OpsTable) /\ Out = <<UnsatLine>> /\ ExitStatus # 0)

\* three operations of 1-bit prefixes: unsat was answered and printed
C6_Witness ==
    /\ pc = "exit"
    /\ Len(OpsTable) = 3
    /\ \A i \in 1 .. 3 : PrefixLength(OpsTable, i) = 1
    /\ Res = "unsat"
    /\ Out = <<UnsatLine>>
    /\ ExitStatus # 0

-----------------------------------------------------------------------------
(* constmat.cpp: the reference materialization utility.  The integers are   *)
(* sets of the positions of their one bits, so that the 32-bit and 64-bit   *)
(* arithmetic of the program is computed to the bit.                        *)

MaxPairs == 2     \* most pairs in constdist.txt (the histogram apart)

\* getMatCost(int64_t V): V is the set of one bits of the int64_t
getMatCost(V) ==
    IF V = {} \/ V = {0} THEN 0
    ELSE IF isInt(12, V) THEN 1
    ELSE IF isInt(32, V) THEN 2
    ELSE 4

\* getMatCost(k) * v: a product of two uint32_t
product(k, v) == Wrap(32, MulBits(NatBits(getMatCost(k)), v))

\* the int64_t of a small integer
Int64(n) ==
    IF n >= 0 THEN NatBits(n)
    ELSE (0 .. 63) \ NatBits(-n - 1)

\* values and counts of the inputs
MatValues ==
    {Int64(0), Int64(1), Int64(100), Int64(-2048), Int64(5000), {31}}
MatCounts == {NatBits(1), NatBits(2), NatBits(3), NatBits(5), {31}, 0 .. 31}

\* the histogram {0 x 5, 1 x 3, 100 x 2, 5000 x 1}
Histogram ==
    << <<Int64(0), NatBits(5)>>, <<Int64(1), NatBits(3)>>,
       <<Int64(100), NatBits(2)>>, <<Int64(5000), NatBits(1)>> >>

InitConstMat ==
    /\ \/ \E n \in 0 .. MaxPairs : FileLines \in [1 .. n -> MatValues \X MatCounts]
       \/ FileLines = Histogram
    /\ pc = "read"
    /\ lineIdx = 1
    /\ sum = {}
    /\ estIdle /\ encIdle /\ batchIdle

\* while (File >> k >> v) sum += getMatCost(k) * v;
ReadPair ==
    /\ pc = "read"
    /\ lineIdx <= Len(FileLines)
    /\ LET k == FileLines[lineIdx][1]
           v == FileLines[lineIdx][2]
       IN  sum' = Wrap(64, AddBits(sum, product(k, v)))
    /\ lineIdx' = lineIdx + 1
    /\ UNCHANGED <<pc, FileLines>>
    /\ UNCHANGED <<estVars, encVars, batchVars>>

\* std::cout << "Cost: " << sum; return EXIT_SUCCESS
PrintCost ==
    /\ pc = "read"
    /\ lineIdx > Len(FileLines)
    /\ Out' = <<[text |-> "Cost: ", value |-> sum]>>
    /\ ExitStatus' = 0
    /\ pc' = "printed"
    /\ UNCHANGED matVars
    /\ UNCHANGED <<OpsTable, pairI, pairJ, Constraints, Res, Model>>
    /\ UNCHANGED <<estVars, batchVars>>

NextConstMat == ReadPair \/ PrintCost

SpecConstMat == InitConstMat /\ [][NextConstMat]_vars

\* the tier of a signed 64-bit value, as C7 states it
tier(value) ==
    IF value = Int64(0) \/ value = Int64(1) THEN 0
    ELSE IF fitsSigned(12, CInt(64, value)) THEN 1
    ELSE IF fitsSigned(32, CInt(64, value)) THEN 2
    ELSE 4

\* the exact sum of tier(value) * count over the pairs
RECURSIVE ExactCost(_)
ExactCost(pairs) ==
    IF pairs = <<>> THEN {}
    ELSE AddBits(MulBits(NatBits(tier(Head(pairs)[1])), Head(pairs)[2]),
                 ExactCost(Tail(pairs)))

\* C7: for every sequence of (value, count) pairs, value a signed 64-bit
\* integer and count an unsigned 32-bit integer, the printed "Cost:" is the
\* exact sum over the pairs of tier(value) * count; the histogram gives 4.
C7_ExactCost ==
    pc = "printed" =>
      /\ Out[1].value = ExactCost(FileLines)
      /\ FileLines = Histogram => Out[1].value = NatBits(4)

\* what the program prints: every product is reduced modulo 2^32 before it
\* is added
RECURSIVE WrappedCost(_)
WrappedCost(pairs) ==
    IF pairs = <<>> THEN {}
    ELSE AddBits(Wrap(32, MulBits(NatBits(tier(Head(pairs)[1])), Head(pairs)[2])),
                 WrappedCost(Tail(pairs)))

C7_CostModulo ==
    pc = "printed" =>
      /\ Out[1].value = WrappedCost(FileLines)
      /\ FileLines = Histogram => Out[1].value = NatBits(4)

\* the histogram was summed to 4
C7_Witness ==
    /\ pc = "printed"
    /\ FileLines = Histogram
    /\ Out[1].value = {2}

-----------------------------------------------------------------------------
(* costestimate.cpp, estimateCost and main: the batch over a directory.     *)
(* A path is the sequence of the pieces of its string: "/", the names of    *)
(* the directories, the stem of the file name and its extension, so that    *)
(* find and replace work on the string and not on a list of segments.       *)

MaxFiles == 3     \* most regular files below the input directory

npos == -1        \* std::string::npos

\* a parsed module is the sequence of its functions; a declaration has no
\* blocks; parseIRFile gives a null pointer for a file it cannot parse
NullModule == [null |-> TRUE, fns |-> <<>>]
Module(fns) == [null |-> FALSE, fns |-> fns]
Declaration == [blocks |-> <<>>, insts |-> <<>>]

\* estimateCost(Module &M)
RECURSIVE estimateCost(_)
estimateCost(fns) ==
    IF fns = <<>> THEN 0
    ELSE (IF Len(Head(fns).blocks) = 0 THEN 0 ELSE run(Head(fns)))
         + estimateCost(Tail(fns))

\* std::string::find(Pattern): the first position, counted from 0, or npos
find(str, Pattern) ==
    LET at == {i \in 0 .. (Len(str) - Len(Pattern)) :
                 SubSeq(str, i + 1, i + Len(Pattern)) = Pattern}
    IN  IF at = {} THEN npos ELSE Min(at)

\* std::string::replace(pos, len, with) throws std::out_of_range when pos is
\* beyond the size, as npos is
replaceThrows(str, pos) == pos = npos \/ pos > Len(str)

replace(str, pos, len, with) ==
    SubSeq(str, 1, pos) \o with \o SubSeq(str, Min({pos + len, Len(str)}) + 1, Len(str))

Pattern == <<"/", "optimized", "/">>

\* fs::path::extension()
extension(Path) ==
    IF Path # <<>> /\ Path[Len(Path)] \in {".ll", ".txt"} THEN Path[Len(Path)] ELSE ""

\* the current directory of the process
cwd == <<"/", "w">>

\* fs::absolute
absolute(Path) == IF Path[1] = "/" THEN Path ELSE cwd \o <<"/">> \o Path

\* fs::relative(Path, Base) for a Path below Base
relative(Path, Base) == SubSeq(absolute(Path), Len(absolute(Base)) + 2, Len(absolute(Path)))

\* the order of the first characters of the pieces: '.' < '/' < letters
CharRank(piece) ==
    CASE piece = ".ll" -> 1
      [] piece = ".txt" -> 1
      [] piece = "/" -> 2
      [] piece = "a" -> 3
      [] piece = "b" -> 4
      [] piece = "d" -> 5
      [] piece = "optimized" -> 6
      [] piece = "p" -> 7
      [] piece = "q" -> 8
      [] piece = "w" -> 9

\* std::less<std::string>
RECURSIVE Less(_, _)
Less(a, b) ==
    IF b = <<>> THEN FALSE
    ELSE IF a = <<>> THEN TRUE
    ELSE IF Head(a) # Head(b) THEN CharRank(Head(a)) < CharRank(Head(b))
    ELSE Less(Tail(a), Tail(b))

\* CostTable[K] = V with the new key put at the end
MapStore_append(T, K, V) ==
    IF \E i \in 1 .. Len(T) : T[i][1] = K
    THEN [i \in 1 .. Len(T) |-> IF T[i][1] = K THEN <<K, V>> ELSE T[i]]
    ELSE Append(T, <<K, V>>)

\* CostTable[K] = V of a std::map: the keys stay in ascending order
MapStore(T, K, V) ==
    IF \E i \in 1 .. Len(T) : T[i][1] = K
    THEN [i \in 1 .. Len(T) |-> IF T[i][1] = K THEN <<K, V>> ELSE T[i]]
    ELSE LET n == Cardinality({i \in 1 .. Len(T) : Less(T[i][1], K)})
         IN  SubSeq(T, 1, n) \o << <<K, V>> >> \o SubSeq(T, n + 1, Len(T))

\* parseIRFile(Path.string(), Err, Context)
parseIRFile(Path) == (CHOOSE e \in Range(Entries) : e.Path = Path).M

\* the paths below the input directory, relative to it
RelPaths ==
    { <<"p", "/", "optimized", "/", "a", ".ll">>,
      <<"q", "/", "optimized", "/", "a", ".ll">>,
      <<"optimized", "/", "a", ".ll">>,
      <<"p", "/", "a", ".ll">>,
      <<"p", "/", "optimized", "/", "a", ".txt">>,
      <<"p", "/", "optimized", "/", "q", "/", "a", ".ll">>,
      <<"p", "/", "q", "/", "optimized", "/", "a", ".ll">> }

\* what the files hold
Modules ==
    { NullModule,
      Module(<<Declaration, AddRet(32, c5)>>),
      Module(<<RetConst(cBig), Declaration, AddRet(32, cBig)>>) }

InitBatch ==
    /\ InputDir = <<"d">>
    /\ \E n \in 0 .. MaxFiles :
         \E rel \in [1 .. n -> RelPaths] :
           /\ \A i, j \in 1 .. n : i # j => rel[i] # rel[j]
           /\ \E ms \in [1 .. n -> Modules] :
                Entries = [i \in 1 .. n |->
                             [Path |-> InputDir \o <<"/">> \o rel[i], M |-> ms[i]]]
    /\ pc = "scan"
    /\ InputFiles = <<>>
    /\ fileIdx = 0
    /\ CostTable = <<>>
    /\ Writer = <<>>
    /\ Report = <<>>
    /\ estIdle /\ encIdle /\ matIdle

\* the filter of the directory iteration
isConsidered(Path) == extension(Path) = ".ll" /\ find(Path, Pattern) # npos

\* the loop over fs::recursive_directory_iterator
Scan ==
    /\ pc = "scan"
    /\ InputFiles' = SelectSeq([i \in 1 .. Len(Entries) |-> Entries[i].Path],
                               isConsidered)
    /\ fileIdx' = 1
    /\ pc' = "batch"
    /\ UNCHANGED <<InputDir, Entries, CostTable, Writer, Report>>
    /\ UNCHANGED <<estVars, encVars, matVars>>

\* if (!M) continue;
SkipFile ==
    /\ pc = "batch"
    /\ fileIdx <= Len(InputFiles)
    /\ parseIRFile(InputFiles[fileIdx]).null
    /\ fileIdx' = fileIdx + 1
    /\ UNCHANGED <<pc, InputDir, Entries, InputFiles, CostTable, Writer, Report>>
    /\ UNCHANGED <<estVars, encVars, matVars>>

\* Name.replace(Name.find(Pattern), ...) throws; nothing catches it
ThrowOutOfRange ==
    /\ pc = "batch"
    /\ fileIdx <= Len(InputFiles)
    /\ ~parseIRFile(InputFiles[fileIdx]).null
    /\ LET Name == relative(InputFiles[fileIdx], absolute(InputDir))
       IN  replaceThrows(Name, find(Name, Pattern))
    /\ pc' = "terminate"
    /\ UNCHANGED batchVars
    /\ UNCHANGED <<estVars, encVars, matVars>>

\* CostTable[Name] = estimateCost(*M);
RecordCost ==
    /\ pc = "batch"
    /\ fileIdx <= Len(InputFiles)
    /\ ~parseIRFile(InputFiles[fileIdx]).null
    /\ LET Path == InputFiles[fileIdx]
           rel == relative(Path, absolute(InputDir))
           pos == find(rel, Pattern)
           Name == replace(rel, pos, Len(Pattern), <<"/">>)
       IN  /\ ~replaceThrows(rel, pos)
           /\ CostTable' = MapStore(CostTable, Name, estimateCost(parseIRFile(Path).fns))
           /\ Writer' = (Name :> Path) @@ Writer
    /\ fileIdx' = fileIdx + 1
    /\ UNCHANGED <<pc, InputDir, Entries, InputFiles, Report>>
    /\ UNCHANGED <<estVars, encVars, matVars>>

\* the loop over CostTable and the line "Total"
WriteReport ==
    /\ pc = "batch"
    /\ fileIdx > Len(InputFiles)
    /\ Report' = CostTable
                 \o << <<(<<"Total">>), SumSeq([i \in 1 .. Len(CostTable) |-> CostTable[i][2]])>> >>
    /\ ExitStatus' = 0
    /\ pc' = "reported"
    /\ UNCHANGED <<InputDir, Entries, InputFiles, fileIdx, CostTable, Writer>>
    /\ UNCHANGED <<OpsTable, pairI, pairJ, Constraints, Res, Model, Out>>
    /\ UNCHANGED <<estVars, matVars>>

\* if (!ResultFile.is_open()) return EXIT_FAILURE;
OpenFails ==
    /\ pc = "batch"
    /\ fileIdx > Len(InputFiles)
    /\ ExitStatus' = 1
    /\ pc' = "failed"
    /\ UNCHANGED batchVars
    /\ UNCHANGED <<OpsTable, pairI, pairJ, Constraints, Res, Model, Out>>
    /\ UNCHANGED <<estVars, matVars>>

NextBatch ==
    \/ Scan
    \/ SkipFile
    \/ ThrowOutOfRange
    \/ RecordCost
    \/ WriteReport
    \/ OpenFails

SpecBatch == InitBatch /\ [][NextBatch]_vars

\* the segments of a path: what its "/" separate
RECURSIVE SplitPath(_)
SplitPath(str) ==
    IF "/" \notin Range(str) THEN <<str>>
    ELSE LET i == Min({k \in 1 .. Len(str) : str[k] = "/"})
         IN  <<SubSeq(str, 1, i - 1)>> \o SplitPath(SubSeq(str, i + 1, Len(str)))

RECURSIVE JoinPath(_)
JoinPath(segs) ==
    IF segs = <<>> THEN <<>>
    ELSE IF Len(segs) = 1 THEN segs[1]
    ELSE segs[1] \o <<"/">> \o JoinPath(Tail(segs))

\* the segments of a file's path below the input root
SegmentsBelowRoot(Path) == SplitPath(SubSeq(Path, Len(InputDir) + 2, Len(Path)))

\* a regular .ll file with a directory segment named optimized
HasOptimizedSegment(Path) ==
    LET segs == SegmentsBelowRoot(Path)
    IN  /\ segs[Len(segs)][Len(segs[Len(segs)])] = ".ll"
        /\ \E i \in 1 .. (Len(segs) - 1) : segs[i] = <<"optimized">>

\* the path relative to the input root with the optimized segment removed
CanonicalName(Path) ==
    LET segs == SegmentsBelowRoot(Path)
        i == Min({k \in 1 .. Len(segs) : segs[k] = <<"optimized">>})
    IN  JoinPath(RemoveAt(segs, i))

\* the considered files that parse
ParsedFiles == {Path \in Range(InputFiles) : ~parseIRFile(Path).null}

HasBody(Fn) == Len(Fn.blocks) > 0

\* the sum of CostEstimator::run over the functions of a file that have a body
ProgramCost(Path) ==
    LET fns == SelectSeq(parseIRFile(Path).fns, HasBody)
    IN  SumSeq([i \in 1 .. Len(fns) |-> run(fns[i])])

\* the lines of the report before "Total"
Lines == SubSeq(Report, 1, Len(Report) - 1)

\* C8: a file that fails to parse is skipped and the files after it are
\* processed; the report has a line for the name of every file that parsed
\* and for no other, each with the sum of run over the functions of such a
\* file that have a body; the lines ascend by name; "Total" is their sum.
C8_BatchReport ==
    pc = "reported" =>
      /\ Report[Len(Report)][1] = <<"Total">>
      /\ \A f \in ParsedFiles : \E i \in 1 .. Len(Lines) : Lines[i][1] = CanonicalName(f)
      /\ \A i \in 1 .. Len(Lines) :
           \E f \in ParsedFiles :
             /\ Lines[i][1] = CanonicalName(f)
             /\ Lines[i][2] = ProgramCost(f)
      /\ \A i, j \in 1 .. Len(Lines) : i < j => Less(Lines[i][1], Lines[j][1])
      /\ Report[Len(Report)][2] = SumSeq([i \in 1 .. Len(Lines) |-> Lines[i][2]])

\* of three considered files the second failed to parse, the third was
\* processed and its line written before that of the first
C8_Witness ==
    /\ pc = "reported"
    /\ Len(InputFiles) = 3
    /\ ~parseIRFile(InputFiles[1]).null
    /\ parseIRFile(InputFiles[2]).null
    /\ ~parseIRFile(InputFiles[3]).null
    /\ Len(Lines) = 2
    /\ Lines[1][1] = CanonicalName(InputFiles[3])
    /\ Lines[2][1] = CanonicalName(InputFiles[1])
    /\ Lines[1][2] # Lines[2][2]

\* C9: the considered files are the regular .ll files with a directory
\* segment named optimized, wherever it sits below the input root, directly
\* under the root included; for each that parses the name is computed
\* without error and is the path relative to the root less that segment.
C9_CanonicalName ==
    /\ pc # "scan" => Range(InputFiles) =
                        {e.Path : e \in {x \in Range(Entries) : HasOptimizedSegment(x.Path)}}
    /\ pc # "terminate"
    /\ \A i \in 1 .. Len(CostTable) :
         CostTable[i][1] = CanonicalName(Writer[CostTable[i][1]])

\* what does hold: the files are the considered ones, and a name that is
\* computed is the canonical one
NamesAreCanonical ==
    /\ pc # "scan" => Range(InputFiles) =
                        {e.Path : e \in {x \in Range(Entries) : HasOptimizedSegment(x.Path)}}
    /\ \A i \in 1 .. Len(CostTable) :
         CostTable[i][1] = CanonicalName(Writer[CostTable[i][1]])

\* a file directly under the root's optimized directory parsed, and the
\* computation of its name threw
C9_Witness ==
    /\ pc = "terminate"
    /\ InputFiles[fileIdx] = InputDir \o <<"/", "optimized", "/", "a", ".ll">>
    /\ ~parseIRFile(InputFiles[fileIdx]).null

-----------------------------------------------------------------------------
(* More properties of CostEstimator::run.                                   *)

\* the blocks that a path from the entry block reaches
ReachableBlocks(Fn) == ReachAvoiding(CFGOf(Fn), 0, {1})

\* a memory write or a control transfer
HasSideEffect(I) == I.op \in {"store", "ret", "br", "switch", "unreachable"}

\* C11: a step of the run inserts into RequestedValues only in the pre-pass
\* of a reachable block, and then incoming values of its phis, or while it
\* visits an instruction of a reachable block that is requested already or
\* has a side effect; an instruction skipped as dead inserts nothing and
\* adds nothing to Cost; a block unreachable from entry inserts and charges
\* nothing; what was requested stays requested.
C11_RequestedSet ==
    [][ /\ RequestedValues \subseteq RequestedValues'
        /\ pc = "prepass" =>
             /\ Cost' = Cost
             /\ (RequestedValues' # RequestedValues) =>
                  /\ prepassIdx \in ReachableBlocks(F)
                  /\ (RequestedValues' \ RequestedValues) \subseteq
                       UNION {Range(F.insts[i].ops) :
                                i \in {j \in Range(F.blocks[prepassIdx]) :
                                         F.insts[j].op = "phi"}}
        /\ pc = "traverse" =>
             /\ BlockOf(F, current) \in ReachableBlocks(F)
             /\ (RequestedValues' # RequestedValues \/ Cost' # Cost) =>
                  (InstV(current) \in RequestedValues \/ HasSideEffect(F.insts[current]))
             /\ ~(InstV(current) \in RequestedValues \/ HasSideEffect(F.insts[current])) =>
                  (RequestedValues' = RequestedValues /\ Cost' = Cost)
        /\ pc \in {"residual", "done"} => RequestedValues' = RequestedValues
      ]_vars

\* a run ended that skipped a dead instruction and left alone a store of
\* an unreachable block, whose constant was not requested
C11_Witness ==
    /\ pc = "done"
    /\ decided \ visited # {}
    /\ \E i \in InstIds(F) :
         /\ BlockOf(F, i) \notin ReachableBlocks(F)
         /\ F.insts[i].op = "store"
         /\ i \notin decided
         /\ F.insts[i].ops[1] \notin RequestedValues

\* the branch the traversal is at is a conditional branch on an icmp
AtBranchOnICmp ==
    /\ pc = "traverse"
    /\ F.insts[current].op = "br"
    /\ Len(F.insts[current].succs) = 2
    /\ F.insts[current].ops[1].k = "inst"
    /\ F.insts[F.insts[current].ops[1].id].op = "icmp"

\* the compare of the branch the traversal is at
BranchCmp == F.insts[F.insts[current].ops[1].id]

\* C12 as stated, on c = icmp x, k; br c: the branch leaves k unrequested
\* exactly when visitCmp on x and k leaves it unrequested
C12_BranchFold_Original ==
    \A w \in {32, 64} : \A k \in CmpConstants(w) :
      (F = BrCmp(w, k) /\ pc = "done") =>
        (k \in RequestedValues <=> k \in visitCmp(Arg(1, w), k).r)

\* C12, amended: a visit of a conditional branch on an icmp charges 1,
\* requests the compare's first operand, and requests its second operand
\* unless that is zero or a constant of less than 64 bits within signed
\* BranchCmpImmBits bits; a visit of any other branch charges JumpCost and
\* requests all its operands.
C12_BranchFold ==
    [][ (pc = "traverse" /\ F.insts[current].op = "br") =>
          IF AtBranchOnICmp
          THEN /\ Cost' = Cost + 1
               /\ RequestedValues' =
                    RequestedValues \cup {BranchCmp.ops[1]}
                    \cup (IF \/ m_Zero(BranchCmp.ops[2])
                             \/ /\ BranchCmp.ops[2].k = "cint"
                                /\ BranchCmp.ops[2].w < 64
                                /\ fitsSigned(BranchCmpImmBits, BranchCmp.ops[2])
                          THEN {} ELSE {BranchCmp.ops[2]})
          ELSE /\ Cost' = Cost + JumpCost
               /\ RequestedValues' = RequestedValues \cup Operands(F.insts[current])
      ]_vars

\* a branch on icmp x, 16 was visited: 16, within the compare budget but
\* not within the one of the branch, was requested and charged
C12_Witness ==
    /\ pc = "done"
    /\ F = BrCmp(32, CInt(32, {4}))
    /\ CInt(32, {4}) \in RequestedValues
    /\ 1 \in decided \ visited
    /\ Cost = 1 + 2 * JumpCost + 1

\* F is a switch of the family, with its case values and its default
IsSwitchFn(Fn) ==
    /\ Fn # <<>>
    /\ Fn.insts[1].op = "switch"
    /\ Fn \in SwitchFunctions

CaseValuesOf(Fn) == Range(Tail(Fn.insts[1].ops))

\* the blocks of the family that end in a return
ReturnsOf(Fn) == Cardinality({i \in InstIds(Fn) : Fn.insts[i].op = "ret"})

\* C13: a switch with n cases charges JumpCost * (n - d), d = 1 for a
\* default destination that is unreachable, and per case what an equality
\* compare charges and requests: cost 1, the case value requested only when
\* it is outside the compare budget, so that a case value within the budget
\* is never materialized.  (The returns of the family cost JumpCost each.)
C13_SwitchPricing ==
    (IsSwitchFn(F) /\ pc = "done") =>
      LET n == Len(F.insts[1].ops) - 1
          d == IF F.insts[2].op = "unreachable" THEN 1 ELSE 0
          out == {k \in CaseValuesOf(F) : ~fitsSigned(CmpImmBits, k)}
      IN  /\ \A k \in CaseValuesOf(F) : k \in RequestedValues <=> k \in out
          /\ Cost = JumpCost * (n - d) + n + ReturnsOf(F) * JumpCost
                    + statedTierSum(out)

\* the difference of the switch is the mathematical one whenever the switch
\* has a case or its default destination is reachable
SwitchFactorExact ==
    \A n \in 0 .. MaxCases : \A d \in BOOLEAN :
      (n > 0 \/ ~d) => switchFactor(n, d) = NatBits(n - (IF d THEN 1 ELSE 0))

\* a switch with the cases 5 and 2047 and an unreachable default was
\* visited: both case values were requested and charged in the residual pass
C13_Witness ==
    /\ pc = "done"
    /\ F = SwitchFn(<<c5, CInt(32, 0 .. 10)>>, TRUE)
    /\ {c5, CInt(32, 0 .. 10)} \subseteq RequestedValues
    /\ Cost = JumpCost * 1 + 2 + 2 * JumpCost + 2

-----------------------------------------------------------------------------
(* The bit-pattern immediates                                              *)

IsBitwiseRet(Fn) ==
    /\ Fn # <<>>
    /\ Fn.insts[1].op \in {"and", "or", "xor"}
    /\ Fn \in BitwiseFunctions

\* the four shapes of the encoding comment of BitImmBits: an 8-bit value
\* shifted left (its ones span at most 8 positions), an 8-bit value repeated
\* across the width, a mask 2^k - 1, the complement of such a mask
ShiftedByte(V) == V.bits = {} \/ Max(V.bits) - Min(V.bits) <= 7
SplatByte(V) == V.w % 8 = 0 /\ isSplat8(V)
LowMask(V) == \E k \in 0 .. V.w : V.bits = 0 .. (k - 1)
NotLowMask(V) == \E k \in 0 .. V.w : V.bits = k .. (V.w - 1)
DocumentedShape(V) ==
    ShiftedByte(V) \/ SplatByte(V) \/ LowMask(V) \/ NotLowMask(V)

\* C14: the second operand of an and/or/xor is folded (not requested, the
\* operation costs 1 and the constant nothing) exactly when it has one of
\* the four documented shapes, at every width.
C14_BitPatternFold ==
    (IsBitwiseRet(F) /\ pc = "done") =>
      LET c == F.insts[1].ops[2]
      IN  /\ c \in RequestedValues <=> ~DocumentedShape(c)
          /\ DocumentedShape(c) => Cost = 1 + JumpCost

\* what holds: the same, for constants narrower than 64 bits whose ones form
\* a single run
BitPatternFoldOnRuns ==
    (IsBitwiseRet(F) /\ pc = "done") =>
      LET c == F.insts[1].ops[2]
      IN  (c.w < 64 /\ (c.bits = {} \/ c.bits = Min(c.bits) .. Max(c.bits))) =>
            /\ c \in RequestedValues <=> ~DocumentedShape(c)
            /\ DocumentedShape(c) => Cost = 1 + JumpCost

\* and i32 x, 5 was estimated: the constant 5 was requested and charged
C14_Witness ==
    /\ pc = "done"
    /\ F = BinRet("and", 32, c5)
    /\ c5 \in RequestedValues
    /\ Cost = 1 + JumpCost + 1

-----------------------------------------------------------------------------
(* Coverage of the operands of a visited instruction                       *)

\* an operand that is computed or passed in
IsInput(o) == o.k \in {"inst", "arg"}

\* the visit of I may take the operands of the instruction o in its place
Absorbs(Fn, I, o) ==
    \/ I.op \in {"and", "or", "xor"} /\ m_Not(Fn, o)
    \/ I.op = "fneg" /\ definedBy(Fn, o, "fabs")
    \/ I.op = "copysign" /\ definedBy(Fn, o, "fneg")
    \/ I.op = "abs" /\ definedBy(Fn, o, "sub")
    \/ I.op = "br" /\ Len(I.succs) = 2 /\ definedBy(Fn, o, "icmp")

Covered(Fn, I, o, Req) ==
    \/ o \in Req
    \/ /\ Absorbs(Fn, I, o)
       /\ \A q \in Range(Fn.insts[o.id].ops) : IsInput(q) => q \in Req

\* C15: every operand of a visited instruction that is an instruction
\* result or a parameter is requested, unless the visit absorbed it and
\* requested the operands of the absorbed instruction instead; so a shift
\* requests its computed amount and a floating minimum both its operands.
C15_OperandCoverage ==
    F # <<>> =>
      \A i \in visited : \A o \in Range(F.insts[i].ops) :
        IsInput(o) => Covered(F, F.insts[i], o, RequestedValues)

\* what holds: the same for every instruction but the shifts, the floating
\* minima and maxima, and the address computations (whose base pointer is
\* requested only with a scaled index or a non-zero constant offset)
CoverageElsewhere ==
    F # <<>> =>
      \A i \in visited : \A o \in Range(F.insts[i].ops) :
        (IsInput(o) /\ F.insts[i].op \notin {"shl", "lshr", "ashr", "minnum", "gep"}) =>
          Covered(F, F.insts[i], o, RequestedValues)

\* s = y + 5; a = x << s; return a: the run is over, the shift was visited
\* and the add that computes its amount was skipped
C15_Witness ==
    /\ pc = "done"
    /\ F = Chain("add", <<yArg, c5>>, "shl", <<xArg, InstV(1)>>)
    /\ 2 \in visited
    /\ 1 \in decided \ visited
    /\ InstV(1) \notin RequestedValues
    /\ Cost = 1 + JumpCost

-----------------------------------------------------------------------------
(* The assertions of countAdd and countMul                                 *)

\* C16: the estimator is never stopped by an assertion, and no visit
\* passes a zero or null addend to countAdd or a multiplier 0 or 1 to
\* countMul, be it from an add, a mul or an address computation.
C16_AssertionValidity ==
    /\ pc # "aborted"
    /\ F # <<>> => \A i \in visited : assertionsHold(F.insts[i])

\* what holds: the multiplier and the constant offset that the address
\* computation itself builds pass the assertions; only the base pointer and
\* the operands of add and mul can fail them
AddressConstantsPass ==
    (F # <<>> /\ pc = "aborted" /\ F.insts[current].op = "gep") =>
      /\ countMul_asserts(Scale(F.insts[current]))
      /\ ConstantOffset(F.insts[current]).bits # {} =>
           countAdd_asserts(ConstantOffset(F.insts[current]))
      /\ F.insts[current].ops[1] = Null

\* the visit of x + 0 stopped the estimator before any cost was returned
C16_Witness ==
    /\ pc = "aborted"
    /\ F = BinRet("add", 32, CInt(32, {}))
    /\ current = 1
    /\ Cost = JumpCost

-----------------------------------------------------------------------------
(* Units of the batch that share a name                                    *)

\* the sum of the costs of a set of files
RECURSIVE CostOfFiles(_)
CostOfFiles(S) ==
    IF S = {} THEN 0
    ELSE LET f == CHOOSE x \in S : TRUE
         IN  ProgramCost(f) + CostOfFiles(S \ {f})

\* C17: no two considered files have the same canonical name; so the report
\* has a line of its own for every file that parsed, and "Total" is the sum
\* of the costs of all the files that parsed.
C17_NoLostUnits ==
    /\ pc # "scan" =>
         \A f, g \in Range(InputFiles) :
           f # g => CanonicalName(f) # CanonicalName(g)
    /\ pc = "reported" =>
         /\ Len(Lines) = Cardinality(ParsedFiles)
         /\ Report[Len(Report)][2] = CostOfFiles(ParsedFiles)

\* what holds: a line has the cost of the file that was stored last under
\* its name
LastWriterWins ==
    pc = "reported" =>
      \A i \in 1 .. Len(Lines) : Lines[i][2] = ProgramCost(Writer[Lines[i][1]])

\* d/p/optimized/q/a.ll and d/p/q/optimized/a.ll both parsed, with
\* different costs; the report has the single line p/q/a.ll and its total
\* is the cost of one of the two files
C17_Witness ==
    /\ pc = "reported"
    /\ \E f, g \in ParsedFiles :
         /\ f = InputDir \o <<"/", "p", "/", "optimized", "/", "q", "/", "a", ".ll">>
         /\ g = InputDir \o <<"/", "p", "/", "q", "/", "optimized", "/", "a", ".ll">>
         /\ ProgramCost(f) # ProgramCost(g)
         /\ ParsedFiles = {f, g}
         /\ Len(Lines) = 1
         /\ Lines[1][1] = <<"p", "/", "q", "/", "a", ".ll">>
         /\ Report[Len(Report)][2] \in {ProgramCost(f), ProgramCost(g)}

=============================================================================
